---- MODULE Spec2Model ----
(***************************************************************************)
(* Model of envtemplate: the context builder getEnvMap (main.go), the      *)
(* context filter TemplateData.Filter (lib) and the methods of             *)
(* ExtendedString (package template) a template calls during the render.   *)
(* To them come the whole run of main (checkOptions, the text/template     *)
(* language with the delimiters {[ and ]}, the execution of the template)  *)
(* and the two library functions DefineCommandLineFlags (package utils,    *)
(* over package flag) and ConditionalCopy (package reflection).            *)
(*                                                                         *)
(* A Go string is modelled as a sequence of one-character strings, so      *)
(* "A=x" is <<"A", "=", "x">>.  The text of the environment and of the     *)
(* patterns is ASCII, so bytes, code points and characters coincide; the   *)
(* texts the methods of ExtendedString work on hold bytes above 0x7F too,  *)
(* written by name (see Bytes and UTF-8).                                  *)
(***************************************************************************)
EXTENDS Integers, Sequences, FiniteSets, TLC

VARIABLES
    environ,    \* os.Environ(): the process environment, a sequence of entries
    pc,         \* position of the run
    i,          \* index of the entry the loop of getEnvMap is at (1-based)
    envMap,     \* the map getEnvMap builds and returns (the Template Context)
    prevMap,    \* the context an earlier run built from the same snapshot
    op,         \* the operation the template called last, "none" before any
    pattern,    \* its argument, when it was Filter
    rv,         \* its result, when it was Filter
    stderr,     \* diagnostics written to standard error, in order
    es,         \* its receiver, when it was a method of ExtendedString
    arg,        \* its argument, when it was a method of ExtendedString
    ret,        \* its result, when it was a method of ExtendedString
    reads,      \* the paths it handed to os.ReadFile, in order
    cf,         \* main: the parsed commandlineFlags (OutputFile, InputFile)
    source,     \* main: the template text standard input or the file holds
    outFile,    \* main: the file -o names, whether it exists and its bytes
    stdout,     \* main: the bytes written to standard output
    handles,    \* main: the file handles the process holds open
    tmplt,      \* main: the parsed template checkOptions returns
    prevRun,    \* main: the outcome of an earlier run on the same inputs
    options,    \* DefineCommandLineFlags: the struct the flags are bound to
    formal,     \* flag.CommandLine: the flags defined, by name
    args,       \* the command line flag.Parse has still to read
    copyDst,    \* ConditionalCopy: the destination struct, dst
    copySrc,    \* ConditionalCopy: the origin struct, src
    checkerFn,  \* ConditionalCopy: the checker function
    err         \* the error the library call returned

vars == <<environ, pc, i, envMap, prevMap, op, pattern, rv, stderr, es, arg,
          ret, reads, cf, source, outFile, stdout, handles, tmplt, prevRun,
          options, formal, args, copyDst, copySrc, checkerFn, err>>

\* The variables of getEnvMap and of the calls of a render step.
callVars == <<i, prevMap, op, pattern, rv, es, arg, ret, reads>>

\* The variables of the whole run of main.
mainVars == <<cf, source, outFile, stdout, handles, tmplt, prevRun>>

\* The variables of the calls of the libraries utils and reflection.
libVars == <<options, formal, args, copyDst, copySrc, checkerFn, err>>

\* No run of main is modelled: its variables stay as they are here.
MainAtRest ==
    /\ cf = [OutputFile |-> <<>>, InputFile |-> <<>>]
    /\ source = <<>>
    /\ outFile = [exists |-> FALSE, data |-> <<>>]
    /\ stdout = <<>>
    /\ handles = {}
    /\ tmplt = <<>>
    /\ prevRun = [done |-> FALSE, out |-> <<>>, code |-> 0]

\* No library call is modelled: its variables stay as they are here.
LibAtRest ==
    /\ options = <<>>
    /\ formal = <<>>
    /\ args = <<>>
    /\ copyDst = <<>>
    /\ copySrc = <<>>
    /\ checkerFn = <<>>
    /\ err = <<>>

(***************************************************************************)
(* Bounds of the model                                                     *)
(***************************************************************************)
\* Longest generated raw value, counted in tokens of Tokens.
MaxTokens == 3

\* Most diagnostics kept of what one run writes to standard error.
MaxDiagnostics == 1

(***************************************************************************)
(* Characters                                                              *)
(***************************************************************************)
Digit == {"0", "1", "2", "3", "4", "5", "6", "7", "8", "9"}

Lower == {"a", "b", "c", "d", "e", "f", "g", "h", "i", "j", "k", "l", "m",
          "n", "o", "p", "q", "r", "s", "t", "u", "v", "w", "x", "y", "z"}

Upper == {"A", "B", "C", "D", "E", "F", "G", "H", "I", "J", "K", "L", "M",
          "N", "O", "P", "Q", "R", "S", "T", "U", "V", "W", "X", "Y", "Z"}

\* os: isShellSpecialVar
isShellSpecialVar(c) == c \in {"*", "#", "$", "@", "!", "?", "-"} \cup Digit

\* The characters os.isAlphaNum accepts; also \w of regexp, [0-9A-Za-z_].
AlphaNum == {"_"} \cup Digit \cup Lower \cup Upper

\* os: isAlphaNum
isAlphaNum(c) == c \in AlphaNum

\* The character class [\w-] of the marker pattern.
VarNameClass == AlphaNum \cup {"-"}

(***************************************************************************)
(* Strings and maps                                                        *)
(***************************************************************************)
Min(S) == CHOOSE m \in S : \A n \in S : m <= n

\* s[from:] of Go, with a 1-based first position.
Suffix(s, from) == SubSeq(s, from, Len(s))

\* The positions of character c in s.
IndexesOf(s, c) == {k \in 1..Len(s) : s[k] = c}

\* make(map[string]ExtendedString): the empty map.
EmptyMap == [k \in {} |-> <<>>]

\* m[k] = v of a Go map.
Put(m, k, v) == [x \in (DOMAIN m) \cup {k} |-> IF x = k THEN v ELSE m[x]]

(***************************************************************************)
(* The process environment (package syscall: copyenv, Getenv)              *)
(***************************************************************************)
\* The entries copyenv indexes: those with a '=', under the text before it.
EnvKey(entry) == SubSeq(entry, 1, Min(IndexesOf(entry, "=")) - 1)

\* Faulty variant of Getenv: a lookup in the partially built context.
GetenvFromContext(key) ==
    IF key \in DOMAIN envMap THEN envMap[key] ELSE <<>>

\* Faulty variant of Getenv: a variable that is not set keeps its reference.
GetenvKeepMissing(key) ==
    LET hits == {k \in 1..Len(environ) :
                    /\ IndexesOf(environ[k], "=") # {}
                    /\ EnvKey(environ[k]) = key}
    IN  IF key = <<>> \/ hits = {} THEN <<"$">> \o key
        ELSE Suffix(environ[Min(hits)], Min(IndexesOf(environ[Min(hits)], "=")) + 1)

\* Faulty variant of Getenv: no variable is ever set.
GetenvUnset(key) == <<>>

\* os.Getenv: the value of the first entry whose name is key, "" when there is
\* none or when key is empty.
Getenv(key) ==
    LET hits == {k \in 1..Len(environ) :
                    /\ IndexesOf(environ[k], "=") # {}
                    /\ EnvKey(environ[k]) = key}
    IN  IF key = <<>> \/ hits = {} THEN <<>>
        ELSE Suffix(environ[Min(hits)], Min(IndexesOf(environ[Min(hits)], "=")) + 1)

(***************************************************************************)
(* regexp.ReplaceAll with `%(?P<VARNAME>[\w-]+)%` and template ${$VARNAME} *)
(***************************************************************************)
\* The replacement template of main.go:67.
Template == <<"$", "{", "$", "V", "A", "R", "N", "A", "M", "E", "}">>

\* The name of the only capture group of the pattern.
GroupName == <<"V", "A", "R", "N", "A", "M", "E">>

\* Number of characters of s from position from on that are in chars, up to
\* the first one that is not.
LeadingRun(s, from, chars) ==
    LET bad == {k \in from..Len(s) : s[k] \notin chars}
    IN  IF bad = {} THEN Len(s) - from + 1 ELSE Min(bad) - from

\* regexp: extract, the name that follows a '$' of a template.  For the
\* ASCII text of the model "letter, digit or '_'" is isAlphaNum.
extract(str) ==
    LET brace == str # <<>> /\ str[1] = "{"
        body  == IF brace THEN Tail(str) ELSE str
        n     == LeadingRun(body, 1, AlphaNum)
    IN  IF str = <<>> \/ n = 0 THEN [ok |-> FALSE, name |-> <<>>, rest |-> str]
        ELSE IF brace /\ (n >= Len(body) \/ body[n + 1] # "}")
             THEN [ok |-> FALSE, name |-> <<>>, rest |-> str]
        ELSE [ok   |-> TRUE,
              name |-> SubSeq(body, 1, n),
              rest |-> Suffix(body, IF brace THEN n + 2 ELSE n + 1)]

\* regexp: expand, the template with $name and ${name} replaced by the
\* submatches of one match: whole is the matched text, varname group 1.
RECURSIVE expand(_, _, _)
expand(template, whole, varname) ==
    LET dollars == IndexesOf(template, "$")
    IN  IF dollars = {} THEN template
        ELSE
          LET d      == Min(dollars)
              before == SubSeq(template, 1, d - 1)
              after  == Suffix(template, d + 1)
              x      == extract(after)
          IN  IF after # <<>> /\ after[1] = "$"
                THEN before \o <<"$">> \o expand(Tail(after), whole, varname)
              ELSE IF ~x.ok
                THEN before \o <<"$">> \o expand(after, whole, varname)
              ELSE before
                   \o (IF x.name \in {GroupName, <<"1">>} THEN varname
                       ELSE IF x.name = <<"0">> THEN whole
                       ELSE <<>>)
                   \o expand(x.rest, whole, varname)

\* Faulty variant of MarkerEnd: the name may be empty ([\w-]* for [\w-]+).
MarkerEndStar(s, p) ==
    IF s[p] # "%" THEN 0
    ELSE LET n == LeadingRun(s, p + 1, VarNameClass)
         IN  IF p + n + 1 <= Len(s) /\ s[p + n + 1] = "%"
             THEN p + n + 1 ELSE 0

\* Position of the '%' that closes a marker opening at position p of s, 0
\* when no marker starts at p.  [\w-]+ is greedy and cannot hold a '%'.
MarkerEnd(s, p) ==
    IF s[p] # "%" THEN 0
    ELSE LET n == LeadingRun(s, p + 1, VarNameClass)
         IN  IF n >= 1 /\ p + n + 1 <= Len(s) /\ s[p + n + 1] = "%"
             THEN p + n + 1 ELSE 0

\* rexp.ReplaceAll(s, Template) from position p on: leftmost matches, not
\* overlapping, everything else copied.
RECURSIVE ReplaceAllFrom(_, _)
ReplaceAllFrom(s, p) ==
    IF p > Len(s) THEN <<>>
    ELSE LET e == MarkerEnd(s, p)
         IN  IF e > 0
             THEN expand(Template, SubSeq(s, p, e), SubSeq(s, p + 1, e - 1))
                  \o ReplaceAllFrom(s, e + 1)
             ELSE <<s[p]>> \o ReplaceAllFrom(s, p + 1)

\* Faulty variant of ReplaceAll: only the first match is replaced.
RECURSIVE ReplaceFirstFrom(_, _)
ReplaceFirstFrom(s, p) ==
    IF p > Len(s) THEN <<>>
    ELSE LET e == MarkerEnd(s, p)
         IN  IF e > 0
             THEN expand(Template, SubSeq(s, p, e), SubSeq(s, p + 1, e - 1))
                  \o Suffix(s, e + 1)
             ELSE <<s[p]>> \o ReplaceFirstFrom(s, p + 1)

ReplaceFirst(s) == ReplaceFirstFrom(s, 1)

ReplaceAll(s) == ReplaceAllFrom(s, 1)

(***************************************************************************)
(* os.ExpandEnv                                                            *)
(***************************************************************************)
\* os: getShellName, the name that follows a '$' and the characters it takes.
getShellName(s) ==
    IF s[1] = "{" THEN
        IF Len(s) > 2 /\ isShellSpecialVar(s[2]) /\ s[3] = "}"
        THEN <<SubSeq(s, 2, 2), 3>>
        ELSE LET closing == {k \in 2..Len(s) : s[k] = "}"}
             IN  IF closing = {} THEN << <<>>, 1 >>
                 ELSE IF Min(closing) = 2 THEN << <<>>, 2 >>
                 ELSE <<SubSeq(s, 2, Min(closing) - 1), Min(closing)>>
    ELSE IF isShellSpecialVar(s[1]) THEN <<SubSeq(s, 1, 1), 1>>
    ELSE LET n == LeadingRun(s, 1, AlphaNum)
         IN  <<SubSeq(s, 1, n), n>>

\* os.Expand(s, os.Getenv) from position j on: one pass, the text a
\* reference expands to is appended and never looked at again.
RECURSIVE ExpandFrom(_, _)
ExpandFrom(s, j) ==
    IF j > Len(s) THEN <<>>
    ELSE IF s[j] = "$" /\ j < Len(s) THEN
        LET r    == getShellName(Suffix(s, j + 1))
            name == r[1]
            w    == r[2]
        IN  (IF name = <<>> /\ w > 0 THEN <<>>
             ELSE IF name = <<>> THEN <<"$">>
             ELSE Getenv(name))
            \o ExpandFrom(s, j + w + 1)
    ELSE <<s[j]>> \o ExpandFrom(s, j + 1)

\* Faulty variant of ExpandEnv: the expanded text is expanded once more.
ExpandEnvRescan(s) == ExpandFrom(ExpandFrom(s, 1), 1)

ExpandEnv(s) == ExpandFrom(s, 1)

(***************************************************************************)
(* getEnvMap                                                               *)
(***************************************************************************)
\* Faulty variant of SplitN: the cut is at the last '='.
SplitAtLast(s) ==
    LET eqs == IndexesOf(s, "=")
    IN  IF eqs = {} THEN <<s>>
        ELSE LET m == CHOOSE k \in eqs : \A n \in eqs : n <= k
             IN  <<SubSeq(s, 1, m - 1), Suffix(s, m + 1)>>

\* strings.SplitN(s, "=", 2): at most two pieces, cut at the first '='.
SplitN(s) ==
    LET eqs == IndexesOf(s, "=")
    IN  IF eqs = {} THEN <<s>>
        ELSE <<SubSeq(s, 1, Min(eqs) - 1), Suffix(s, Min(eqs) + 1)>>

\* main.go:67, the late expansion of one raw value.
LateExpand(raw) == ExpandEnv(ReplaceAll(raw))

(***************************************************************************)
(* The environments the runs start from                                    *)
(***************************************************************************)
\* The pieces generated raw values are made of: plain text, the characters
\* of the two expansion syntaxes, and whole markers (of the variable itself,
\* of the other variable, of a variable that is never set).
Tokens == { <<"x">>, <<"A">>, <<"$">>, <<"{">>, <<"}">>, <<"%">>,
            <<"%", "A", "%">>, <<"%", "B", "%">>, <<"%", "U", "%">> }

\* The concatenations of at most n tokens.
RECURSIVE TokenStrings(_)
TokenStrings(n) ==
    IF n = 0 THEN { <<>> }
    ELSE LET S == TokenStrings(n - 1)
         IN  S \cup {v \o t : v \in S, t \in Tokens}

\* Raw values of variable A.
Values == TokenStrings(MaxTokens)

\* Raw values of variable B, the variable the values of A refer to.
RefValues == { <<>>, <<"1">>, <<"a", "=", "b">>, <<"%", "A", "%">>,
               <<"$", "A">>, <<"$", "{", "B", "}">> }

\* The entry NAME=value.
Entry(name, value) == name \o <<"=">> \o value

\* The texts of the examples.
NameVARIABLE == <<"V", "A", "R", "I", "A", "B", "L", "E">>

TextLaterGator == <<"L", "a", "t", "e", "r", " ", "g", "a", "t", "o", "r">>

NameMYVAR == <<"M", "Y", "_", "V", "A", "R">>

TextLateValue ==
    <<"L", "a", "t", "e", " ", "V", "a", "l", "u", "e", ":", " ",
          "%", "V", "A", "R", "I", "A", "B", "L", "E", "%">>

TextLateResult ==
    <<"L", "a", "t", "e", " ", "V", "a", "l", "u", "e", ":", " ",
          "L", "a", "t", "e", "r", " ", "g", "a", "t", "o", "r">>

TextXAY == <<"x", "%", "A", "%", "y">>

TextXXAYY == <<"x", "x", "%", "A", "%", "y", "y">>

TextUndefined == <<"%", "U", "N", "D", "E", "F", "I", "N", "E", "D", "%">>

NameFOO == <<"F", "O", "O">>

\* An entry without '=' (execve accepts any string in envp, and Go keeps it
\* in os.Environ()).
NoEqualsEntry == NameFOO

\* Snapshots taken from the README and from the examples of the contract.
ExampleSnapshots == {
    << Entry(NameVARIABLE, TextLaterGator), Entry(NameMYVAR, TextLateValue) >>,
    << Entry(<<"A">>, TextXAY) >>,
    << Entry(<<"A">>, <<"1">>), Entry(<<"B">>, <<"%", "A", "%">>) >>,
    << Entry(<<"B">>, TextUndefined) >>,
    << Entry(<<"A", "-", "B">>, <<"v">>), Entry(<<"A">>, <<"%", "A", "-", "B", "%">>) >>,
    << Entry(<<>>, <<"x">>), Entry(<<"A">>, <<"%", "A", "%">>) >> }

\* os.Environ() at the start of a run.  Names are unique among the entries
\* with a '=': copyenv clears every later entry of a name already seen.
Snapshots ==
    {<< Entry(<<"A">>, a) >> : a \in Values}
    \cup {<< Entry(<<"A">>, a), Entry(<<"B">>, b) >> : a \in Values, b \in RefValues}
    \cup {<< Entry(<<"A">>, b), NoEqualsEntry >> : b \in RefValues}
    \cup {<< NoEqualsEntry, Entry(<<"A">>, b) >> : b \in RefValues}
    \cup { << NoEqualsEntry >> }
    \cup ExampleSnapshots

\* The orders in which the entries of snapshot e can be enumerated.
Orders(e) ==
    LET n == Len(e)
        bijections == {p \in [1..n -> 1..n] : \A a, b \in 1..n : a # b => p[a] # p[b]}
    IN  {[k \in 1..n |-> e[p[k]]] : p \in bijections}

(***************************************************************************)
(* The run: main calls getEnvMap                                           *)
(***************************************************************************)
\* No earlier run.
NoRun == [done |-> FALSE, context |-> EmptyMap]

Init ==
    /\ environ \in Snapshots
    /\ pc = "getEnvMap"
    /\ i = 1
    /\ envMap = EmptyMap
    /\ prevMap = NoRun
    /\ op = "none"
    /\ pattern = <<>>
    /\ rv = EmptyMap
    /\ stderr = <<>>
    /\ es = <<>>
    /\ arg = <<>>
    /\ ret = <<>>
    /\ reads = <<>>
    /\ MainAtRest
    /\ LibAtRest

\* main.go:62-64: the snapshot is taken, the map and the pattern are made.
EnterGetEnvMap ==
    /\ pc = "getEnvMap"
    /\ pc' = "range"
    /\ i' = 1
    /\ envMap' = EmptyMap
    /\ UNCHANGED <<environ, prevMap, op, pattern, rv, stderr, es, arg, ret,
                 reads>>
    /\ UNCHANGED <<mainVars, libVars>>

\* main.go:65-69: one iteration of the loop.  envVar[1] of an entry without
\* '=' is an index out of range: the run panics.
LoopBody ==
    /\ pc = "range"
    /\ i <= Len(environ)
    /\ LET envVar == SplitN(environ[i])
       IN  IF Len(envVar) < 2
           THEN /\ pc' = "panic"
                /\ UNCHANGED <<i, envMap>>
           ELSE /\ envMap' = Put(envMap, envVar[1], LateExpand(envVar[2]))
                /\ i' = i + 1
                /\ pc' = pc
    /\ UNCHANGED <<environ, prevMap, op, pattern, rv, stderr, es, arg, ret,
                 reads>>
    /\ UNCHANGED <<mainVars, libVars>>

\* main.go:70: the loop is over, the map is returned.
ReturnEnvMap ==
    /\ pc = "range"
    /\ i > Len(environ)
    /\ pc' = "done"
    /\ UNCHANGED <<environ, i, envMap, prevMap, op, pattern, rv, stderr, es,
                   arg, ret, reads>>
    /\ UNCHANGED <<mainVars, libVars>>

\* The program is run once more on the same environment, which the system
\* hands over in another order.
RunAgain ==
    /\ pc = "done"
    /\ ~prevMap.done
    /\ environ' \in Orders(environ) \ {environ}
    /\ prevMap' = [done |-> TRUE, context |-> envMap]
    /\ pc' = "getEnvMap"
    /\ i' = 1
    /\ envMap' = EmptyMap
    /\ UNCHANGED <<op, pattern, rv, stderr, es, arg, ret, reads>>
    /\ UNCHANGED <<mainVars, libVars>>

Next == EnterGetEnvMap \/ LoopBody \/ ReturnEnvMap \/ RunAgain

Spec == Init /\ [][Next]_vars

(***************************************************************************)
(* regexp.Compile and MatchString, for the syntax the patterns below use:  *)
(* literals, ^, $, ., \d, \w, escaped punctuation, and the repetitions     *)
(* *, + and ? (with an optional ? for the lazy form)                       *)
(***************************************************************************)
\* One element of a compiled pattern.  kind: "bol" (^), "eol" ($) or "char";
\* class: what a "char" element accepts; min/many: how often; rep: the
\* repetition operator it carries.
Item(kind, class, min, many, rep) ==
    [kind |-> kind, class |-> class, min |-> min, many |-> many, rep |-> rep]

Literal(c) == [type |-> "lit", c |-> c]

Class(type) == [type |-> type, c |-> ""]

CompileError == [ok |-> FALSE, prog |-> <<>>]

\* The element e under the repetition operator rep.
Repeated(e, rep) ==
    Item(e.kind, e.class,
         IF rep = "+" THEN 1 ELSE 0,
         rep \in {"*", "+"},
         "greedy")

\* regexp/syntax: the parse of pattern p from position pos on, items being
\* the elements read so far.
RECURSIVE Parse(_, _, _)
Parse(p, pos, items) ==
    IF pos > Len(p) THEN [ok |-> TRUE, prog |-> items]
    ELSE
      LET c == p[pos]
      IN  CASE c = "^" ->
                 Parse(p, pos + 1, Append(items, Item("bol", Class("none"), 1, FALSE, "none")))
            [] c = "$" ->
                 Parse(p, pos + 1, Append(items, Item("eol", Class("none"), 1, FALSE, "none")))
            [] c = "." ->
                 Parse(p, pos + 1, Append(items, Item("char", Class("any"), 1, FALSE, "none")))
            [] c = "\\" ->
                 IF pos = Len(p) THEN CompileError      \* trailing backslash
                 ELSE IF p[pos + 1] = "d"
                   THEN Parse(p, pos + 2, Append(items, Item("char", Class("digit"), 1, FALSE, "none")))
                 ELSE IF p[pos + 1] = "w"
                   THEN Parse(p, pos + 2, Append(items, Item("char", Class("word"), 1, FALSE, "none")))
                 ELSE IF isAlphaNum(p[pos + 1]) THEN CompileError   \* invalid escape
                 ELSE Parse(p, pos + 2, Append(items, Item("char", Literal(p[pos + 1]), 1, FALSE, "none")))
            [] c \in {"*", "+", "?"} ->
                 IF items = <<>> THEN CompileError      \* missing argument
                 ELSE LET last == items[Len(items)]
                          head == SubSeq(items, 1, Len(items) - 1)
                      IN  IF last.rep = "none"
                            THEN Parse(p, pos + 1, Append(head, Repeated(last, c)))
                          ELSE IF last.rep = "greedy" /\ c = "?"
                            THEN Parse(p, pos + 1, Append(head, [last EXCEPT !.rep = "lazy"]))
                          ELSE CompileError             \* nested repetition
            [] c \in {"(", ")", "["} -> CompileError    \* nothing closes or opens it
            [] OTHER ->
                 Parse(p, pos + 1, Append(items, Item("char", Literal(c), 1, FALSE, "none")))

\* regexp.Compile
Compile(p) == Parse(p, 1, <<>>)

\* A character of the class.
InClass(class, c) ==
    CASE class.type = "lit"   -> c = class.c
      [] class.type = "digit" -> c \in Digit
      [] class.type = "word"  -> isAlphaNum(c)
      [] class.type = "any"   -> TRUE
      [] OTHER                -> FALSE

\* The elements of prog from idx on match s from just after position pos.
RECURSIVE MatchHere(_, _, _, _)
MatchHere(prog, idx, s, pos) ==
    IF idx > Len(prog) THEN TRUE
    ELSE
      LET e == prog[idx]
      IN  IF e.kind = "bol"
            THEN (pos = 0 \/ e.min = 0) /\ MatchHere(prog, idx + 1, s, pos)
          ELSE IF e.kind = "eol"
            THEN (pos = Len(s) \/ e.min = 0) /\ MatchHere(prog, idx + 1, s, pos)
          ELSE
            LET left == Len(s) - pos
                most == IF e.many \/ left = 0 THEN left ELSE 1
            IN  \E n \in e.min..most :
                    /\ \A j \in 1..n : InClass(e.class, s[pos + j])
                    /\ MatchHere(prog, idx + 1, s, pos + n)

\* Faulty variant of MatchString: the match must cover the whole of s.
MatchWhole(prog, s) ==
    MatchHere(Append(prog, Item("eol", Class("none"), 1, FALSE, "none")), 1, s, 0)

\* Regexp.MatchString: prog matches some part of s.
MatchString(prog, s) ==
    \E start \in 0..Len(s) : MatchHere(prog, 1, s, start)

(***************************************************************************)
(* TemplateData.Filter                                                     *)
(***************************************************************************)
\* The diagnostic of utils.go:125.
InvalidPattern(p) == [msg |-> "Invalid pattern", pattern |-> p]

\* Faulty variant of Filter: a pattern that does not compile selects every key
\* and nothing is reported.
FilterFailOpen(t, p) ==
    LET exp == Compile(p)
    IN  IF ~exp.ok
        THEN [rv |-> t, diag |-> <<>>]
        ELSE [rv   |-> [k \in {x \in DOMAIN t : MatchString(exp.prog, x)} |-> t[k]],
              diag |-> <<>>]

\* Faulty variant of Filter: the test of utils.go:130 is left out.
FilterKeepAll(t, p) ==
    IF ~Compile(p).ok
    THEN [rv |-> EmptyMap, diag |-> << InvalidPattern(p) >>]
    ELSE [rv |-> t, diag |-> <<>>]

\* TemplateData.Filter: the map returned and what is written to stderr.
Filter(t, p) ==
    LET exp == Compile(p)
    IN  IF ~exp.ok
        THEN [rv |-> EmptyMap, diag |-> << InvalidPattern(p) >>]
        ELSE [rv   |-> [k \in {x \in DOMAIN t : MatchString(exp.prog, x)} |-> t[k]],
              diag |-> <<>>]

(***************************************************************************)
(* The contexts and patterns Filter is applied to                          *)
(***************************************************************************)
KeyVaultSecret1 ==
    <<"V", "A", "U", "L", "T", "_", "S", "E", "C", "R", "E", "T", "_",
          "1">>

KeyVaultSecret2 ==
    <<"V", "A", "U", "L", "T", "_", "S", "E", "C", "R", "E", "T", "_",
          "2">>

KeyVaultSecretX ==
    <<"X", "V", "A", "U", "L", "T", "_", "S", "E", "C", "R", "E", "T",
          "_", "1">>

KeyOther == <<"O", "T", "H", "E", "R">>

KeyFile1 == <<"F", "I", "L", "E", "_", "1">>

KeyFile10Backup ==
    <<"F", "I", "L", "E", "_", "1", "0", "_", "B", "A", "C", "K", "U",
          "P">>

KeyPool == {KeyVaultSecret1, KeyVaultSecret2, KeyVaultSecretX, KeyOther,
            KeyFile1, KeyFile10Backup, <<>>}

\* The contexts: any keys of the pool, every value telling its key.
Contexts == {[k \in S |-> <<"v", ":">> \o k] : S \in SUBSET KeyPool}

PatVaultSecret ==
    <<"^", "V", "A", "U", "L", "T", "_", "S", "E", "C", "R", "E", "T",
          "_", "\\", "d", "+", "$">>

PatFilePrefix == <<"^", "F", "I", "L", "E", "_", "\\", "d">>

PatSecret == <<"S", "E", "C", "R", "E", "T">>

PatDigitEnd == <<"\\", "d", "$">>

PatEmptyKey == <<"^", "$">>

PatInner == <<"_", "\\", "d", "+", "_">>

PatEndsOne == <<"^", ".", "*", "_", "1", "$">>

ValidPatterns == {PatVaultSecret, PatFilePrefix, PatSecret, PatDigitEnd,
                  PatEmptyKey, PatInner, PatEndsOne, <<>>}

\* Patterns regexp.Compile rejects: missing closing ), missing argument to
\* repetition operator, trailing backslash.
InvalidPatterns == { <<"(">>, <<"*", "F", "I", "L", "E">>, <<"F", "I", "L", "E", "\\">> }

Patterns == ValidPatterns \cup InvalidPatterns

\* The render: the template calls Filter on the context.
InitFilter ==
    /\ environ = <<>>
    /\ pc = "render"
    /\ i = 1
    /\ envMap \in Contexts
    /\ prevMap = NoRun
    /\ op = "none"
    /\ pattern = <<>>
    /\ rv = EmptyMap
    /\ stderr = <<>>
    /\ es = <<>>
    /\ arg = <<>>
    /\ ret = <<>>
    /\ reads = <<>>
    /\ MainAtRest
    /\ LibAtRest

\* Faulty variant of CallFilter: the keys that do not match are deleted from
\* the context itself.
CallFilterInPlace ==
    /\ pc = "render"
    /\ \E p \in Patterns :
        LET r == Filter(envMap, p)
        IN  /\ Len(stderr \o r.diag) <= MaxDiagnostics
            /\ op' = "Filter"
            /\ pattern' = p
            /\ rv' = r.rv
            /\ envMap' = r.rv
            /\ stderr' = stderr \o r.diag
    /\ es' = <<>>
    /\ arg' = <<>>
    /\ ret' = <<>>
    /\ reads' = <<>>
    /\ UNCHANGED <<environ, pc, i, prevMap>>
    /\ UNCHANGED <<mainVars, libVars>>

\* {[ .Filter p ]}: utils.go:122-135.
CallFilter ==
    /\ pc = "render"
    /\ \E p \in Patterns :
        LET r == Filter(envMap, p)
        IN  /\ Len(stderr \o r.diag) <= MaxDiagnostics
            /\ op' = "Filter"
            /\ pattern' = p
            /\ rv' = r.rv
            /\ stderr' = stderr \o r.diag
    /\ es' = <<>>
    /\ arg' = <<>>
    /\ ret' = <<>>
    /\ reads' = <<>>
    /\ UNCHANGED <<environ, pc, i, envMap, prevMap>>
    /\ UNCHANGED <<mainVars, libVars>>

NextFilter == CallFilter

SpecFilter == InitFilter /\ [][NextFilter]_vars

(***************************************************************************)
(* Vocabulary of the properties, stated without the operators of the model *)
(***************************************************************************)
\* The characters of a marker's NAME: word characters and the hyphen.
NameChars == Digit \cup Lower \cup Upper \cup {"_", "-"}

Range(f) == {f[k] : k \in DOMAIN f}

HasEquals(entry) == \E k \in 1..Len(entry) : entry[k] = "="

\* Position of the first '=' of an entry that has one.
FirstEquals(entry) ==
    CHOOSE k \in 1..Len(entry) :
        entry[k] = "=" /\ \A j \in 1..(k - 1) : entry[j] # "="

\* Name and raw value of an entry: the text before and after its first '='.
NameOf(entry) == SubSeq(entry, 1, FirstEquals(entry) - 1)

RawOf(entry) == SubSeq(entry, FirstEquals(entry) + 1, Len(entry))

\* The variables of the snapshot.
Variables == {e \in Range(environ) : HasEquals(e)}

IsSet(name) == \E e \in Variables : NameOf(e) = name

\* The raw value a name has in the snapshot, empty text when it is not set.
RawValue(name) ==
    IF IsSet(name) THEN RawOf(CHOOSE e \in Variables : NameOf(e) = name)
    ELSE <<>>

\* The raw value the entry of key k has.
RawOfKey(k) == RawOf(CHOOSE e \in Variables : NameOf(e) = k)

\* s[p..e] is a marker %NAME%.
IsMarker(s, p, e) ==
    /\ 1 <= p /\ p + 1 < e /\ e <= Len(s)
    /\ s[p] = "%" /\ s[e] = "%"
    /\ \A k \in (p + 1)..(e - 1) : s[k] \in NameChars

\* The end of the marker that starts at p, 0 when none does.
MarkerAt(s, p) ==
    IF \E e \in 1..Len(s) : IsMarker(s, p, e)
    THEN CHOOSE e \in 1..Len(s) : IsMarker(s, p, e)
    ELSE 0

\* The markers of s, as <<start, end>>, leftmost first and not overlapping.
RECURSIVE MarkersFrom(_, _)
MarkersFrom(s, p) ==
    IF p > Len(s) THEN {}
    ELSE IF MarkerAt(s, p) > 0
         THEN {<<p, MarkerAt(s, p)>>} \cup MarkersFrom(s, MarkerAt(s, p) + 1)
    ELSE MarkersFrom(s, p + 1)

Markers(s) == MarkersFrom(s, 1)

MarkerName(s, m) == SubSeq(s, m[1] + 1, m[2] - 1)

\* s with every marker replaced by the raw value of its NAME.
RECURSIVE SubstitutedFrom(_, _)
SubstitutedFrom(s, p) ==
    IF p > Len(s) THEN <<>>
    ELSE IF MarkerAt(s, p) > 0
         THEN RawValue(SubSeq(s, p + 1, MarkerAt(s, p) - 1))
              \o SubstitutedFrom(s, MarkerAt(s, p) + 1)
    ELSE <<s[p]>> \o SubstitutedFrom(s, p + 1)

Substituted(s) == SubstitutedFrom(s, 1)

\* s with every marker taken out.
RECURSIVE WithoutMarkersFrom(_, _)
WithoutMarkersFrom(s, p) ==
    IF p > Len(s) THEN <<>>
    ELSE IF MarkerAt(s, p) > 0 THEN WithoutMarkersFrom(s, MarkerAt(s, p) + 1)
    ELSE <<s[p]>> \o WithoutMarkersFrom(s, p + 1)

WithoutMarkers(s) == WithoutMarkersFrom(s, 1)

\* s with every marker taken out and each stretch of text between markers
\* expanded on its own, as the documented expansion of values does.
RECURSIVE StretchesExpandedFrom(_, _, _)
StretchesExpandedFrom(s, p, stretch) ==
    IF p > Len(s) THEN ExpandEnv(stretch)
    ELSE IF MarkerAt(s, p) > 0
         THEN ExpandEnv(stretch) \o StretchesExpandedFrom(s, MarkerAt(s, p) + 1, <<>>)
    ELSE StretchesExpandedFrom(s, p + 1, stretch \o <<s[p]>>)

HasDollar(s) == \E k \in 1..Len(s) : s[k] = "$"

HasPercent(s) == \E k \in 1..Len(s) : s[k] = "%"

\* t occurs in s as a contiguous part.
Contains(s, t) ==
    \E a \in 0..(Len(s) - Len(t)) : SubSeq(s, a + 1, a + Len(t)) = t

(***************************************************************************)
(* Properties of getEnvMap                                                 *)
(***************************************************************************)
\* C1 as stated: the context value of every variable is its raw value with
\* every marker replaced by the raw value of the marker's NAME, and nothing
\* else changed.
C1_AsClaimed ==
    \A k \in DOMAIN envMap : envMap[k] = Substituted(RawOfKey(k))

\* C1, amended: for every variable whose raw value holds no '$', the context
\* value is the raw value with every non-overlapping marker %NAME% replaced
\* by the raw value NAME has in the snapshot (empty text when NAME is not set).
C1_LateExpansion ==
    \A k \in DOMAIN envMap :
        ~HasDollar(RawOfKey(k)) => envMap[k] = Substituted(RawOfKey(k))

\* The README's example has been built: MY_VAR refers to VARIABLE.
C1_Witness ==
    /\ pc = "done"
    /\ Entry(NameMYVAR, TextLateValue) \in Range(environ)
    /\ Entry(NameVARIABLE, TextLaterGator) \in Range(environ)
    /\ envMap[NameMYVAR] = TextLateResult

\* C2: two runs on the same snapshot, enumerated in different orders, build
\* the same context: the same keys and the same value for every key.
C2_OrderIndependent ==
    (pc = "done" /\ prevMap.done) => envMap = prevMap.context

\* {B: "%A%", A: "1"} has been built in both orders and B is "1".
C2_Witness ==
    /\ pc = "done"
    /\ prevMap.done
    /\ environ = << Entry(<<"B">>, <<"%", "A", "%">>), Entry(<<"A">>, <<"1">>) >>
    /\ envMap[<<"B">>] = <<"1">>
    /\ prevMap.context[<<"B">>] = <<"1">>

C4_AsClaimed ==
    \A k \in DOMAIN envMap :
        LET raw == RawOfKey(k)
        IN  \A m \in Markers(raw) :
                Cardinality(Markers(raw)) = 1
                => Contains(envMap[k], RawValue(MarkerName(raw, m)))

\* C4, amended: in a raw value pre%NAME%post whose pre and post hold neither
\* '%' nor '$', the marker is replaced by the raw value of NAME as it is,
\* whatever markers or expansion syntax that value holds, also when NAME is
\* the variable itself.
C4_SinglePass ==
    \A k \in DOMAIN envMap :
        LET raw == RawOfKey(k)
        IN  \A m \in Markers(raw) :
                LET pre  == SubSeq(raw, 1, m[1] - 1)
                    post == SubSeq(raw, m[2] + 1, Len(raw))
                IN  (~HasDollar(pre \o post) /\ ~HasPercent(pre \o post))
                    => envMap[k] = pre \o RawValue(MarkerName(raw, m)) \o post

\* A variable refers to a variable whose raw value itself holds a marker or
\* a '$', and its context value holds that raw value as it is.
C4_Witness ==
    /\ pc = "done"
    /\ \E k \in DOMAIN envMap :
        LET raw == RawOfKey(k)
        IN  \E m \in Markers(raw) :
                LET target == RawValue(MarkerName(raw, m))
                IN  /\ Cardinality(Markers(raw)) = 1
                    /\ ~HasDollar(raw)
                    /\ HasDollar(target) \/ Markers(target) # {}
                    /\ envMap[k] = SubSeq(raw, 1, m[1] - 1) \o target
                                   \o SubSeq(raw, m[2] + 1, Len(raw))

\* C5 as stated: for {A: "x%A%y"} the context value of A is "xy".
C5_AsClaimed ==
    (pc = "done" /\ environ = << Entry(<<"A">>, TextXAY) >>)
        => envMap[<<"A">>] = <<"x", "y">>

\* C5, amended: for {A: "x%A%y"} the context value of A is "xx%A%yy", the
\* marker replaced by A's own raw value.
C5_SelfReference ==
    (pc = "done" /\ environ = << Entry(<<"A">>, TextXAY) >>)
        => envMap[<<"A">>] = TextXXAYY

\* {A: "x%A%y"} has been built.
C5_Witness ==
    /\ pc = "done"
    /\ environ = << Entry(<<"A">>, TextXAY) >>
    /\ <<"A">> \in DOMAIN envMap

\* C6 as stated: a raw value that holds no marker is the context value,
\* character for character.
C6_AsClaimed ==
    \A k \in DOMAIN envMap :
        Markers(RawOfKey(k)) = {} => envMap[k] = RawOfKey(k)

\* C6, amended: a raw value that holds no marker and no '$' is the context
\* value, character for character.
C6_NoMarkerLiteral ==
    \A k \in DOMAIN envMap :
        (Markers(RawOfKey(k)) = {} /\ ~HasDollar(RawOfKey(k)))
            => envMap[k] = RawOfKey(k)

\* A value made of '%' and braces that form no marker has been kept.
C6_Witness ==
    /\ pc = "done"
    /\ RawValue(<<"A">>) = <<"%", "%", "}">>
    /\ envMap[<<"A">>] = <<"%", "%", "}">>

\* C7: once getEnvMap has returned, the keys of the context are exactly the
\* names of the snapshot's entries, the text before the first '=' of each.
C7_KeysAreNames ==
    pc = "done" => DOMAIN envMap = {NameOf(e) : e \in Range(environ)}

\* A snapshot of two entries, one with a second '=' in its value, is built.
C7_Witness ==
    /\ pc = "done"
    /\ Entry(<<"B">>, <<"a", "=", "b">>) \in Range(environ)
    /\ DOMAIN envMap = {<<"A">>, <<"B">>}

\* C8 as stated: getEnvMap never panics, whatever the entries look like.
C8_NeverPanics == pc # "panic"

(***************************************************************************)
(* Properties of Filter                                                    *)
(***************************************************************************)
StartsWith(s, prefix) ==
    Len(s) >= Len(prefix) /\ SubSeq(s, 1, Len(prefix)) = prefix

EndsWith(s, suffix) ==
    Len(s) >= Len(suffix) /\ SubSeq(s, Len(s) - Len(suffix) + 1, Len(s)) = suffix

\* One digit or more, and nothing else.
IsNumber(s) == s # <<>> /\ \A k \in 1..Len(s) : s[k] \in Digit

TextVaultSecret == <<"V", "A", "U", "L", "T", "_", "S", "E", "C", "R", "E", "T", "_">>

TextFile == <<"F", "I", "L", "E", "_">>

\* The keys each valid pattern selects, said in words of the key's text.
Selects(p, k) ==
    CASE p = PatVaultSecret ->
           StartsWith(k, TextVaultSecret)
           /\ IsNumber(SubSeq(k, Len(TextVaultSecret) + 1, Len(k)))
      [] p = PatFilePrefix ->
           StartsWith(k, TextFile) /\ Len(k) > Len(TextFile)
           /\ k[Len(TextFile) + 1] \in Digit
      [] p = PatSecret -> Contains(k, <<"S", "E", "C", "R", "E", "T">>)
      [] p = PatDigitEnd -> k # <<>> /\ k[Len(k)] \in Digit
      [] p = PatEmptyKey -> k = <<>>
      [] p = PatInner ->
           \E a, b \in 1..Len(k) :
               /\ k[a] = "_" /\ k[b] = "_"
               /\ IsNumber(SubSeq(k, a + 1, b - 1))
      [] p = PatEndsOne -> EndsWith(k, <<"_", "1">>)
      [] p = <<>> -> TRUE

\* C9: Filter with a valid pattern returns a map of its own that holds the
\* entries of the context whose key the pattern matches, each with the value
\* it has in the context, and nothing else; it may be empty.
C9_FilterSelects ==
    (op = "Filter" /\ pattern \in ValidPatterns) =>
        /\ DOMAIN rv = {k \in DOMAIN envMap : Selects(pattern, k)}
        /\ \A k \in DOMAIN rv : rv[k] = envMap[k]

\* Of VAULT_SECRET_1, VAULT_SECRET_2 and OTHER, ^VAULT_SECRET_\d+$ has kept
\* the first two.
C9_Witness ==
    /\ op = "Filter"
    /\ pattern = PatVaultSecret
    /\ DOMAIN envMap = {KeyVaultSecret1, KeyVaultSecret2, KeyOther}
    /\ DOMAIN rv = {KeyVaultSecret1, KeyVaultSecret2}
    /\ rv[KeyVaultSecret1] = envMap[KeyVaultSecret1]

\* The pattern p begins with ^, ends with $.
AnchoredLeft(p) == p # <<>> /\ p[1] = "^"

AnchoredRight(p) == p # <<>> /\ p[Len(p)] = "$"

\* The pattern p, anchored at both ends, selects the text u.
SelectsWhole(p, u) ==
    LET whole == (IF AnchoredLeft(p) THEN <<>> ELSE <<"^">>) \o p
                 \o (IF AnchoredRight(p) THEN <<>> ELSE <<"$">>)
    IN  u \in DOMAIN Filter([x \in {u} |-> <<>>], whole).rv

\* C10: Filter adds no anchor.  A key is selected when the pattern matches
\* some part k[a..b] of it: any part for a pattern without ^ and $, a
\* beginning for a pattern with ^ only, an end for a pattern with $ only,
\* the whole key for a pattern with both.  So ^FILE_\d selects FILE_1 and
\* FILE_10_BACKUP.
C10_NoAnchorAdded ==
    (op = "Filter" /\ pattern \in ValidPatterns) =>
        /\ \A k \in DOMAIN envMap :
            k \in DOMAIN rv <=>
                \E a \in 1..(Len(k) + 1) : \E b \in (a - 1)..Len(k) :
                    /\ AnchoredLeft(pattern) => a = 1
                    /\ AnchoredRight(pattern) => b = Len(k)
                    /\ SelectsWhole(pattern, SubSeq(k, a, b))
        /\ pattern = PatFilePrefix =>
            {KeyFile1, KeyFile10Backup} \cap DOMAIN envMap \subseteq DOMAIN rv

\* ^FILE_\d has selected FILE_1 and FILE_10_BACKUP, and nothing else of a
\* context that holds more.
C10_Witness ==
    /\ op = "Filter"
    /\ pattern = PatFilePrefix
    /\ {KeyFile1, KeyFile10Backup, KeyOther} \subseteq DOMAIN envMap
    /\ DOMAIN rv = {KeyFile1, KeyFile10Backup}

(***************************************************************************)
(* Bytes and UTF-8 (package template, type ExtendedString)                 *)
(*                                                                         *)
(* The text of an ExtendedString is a sequence of bytes.  A printable      *)
(* ASCII byte is written as its character, "\t" "\n" "\r" as themselves,   *)
(* and any other byte by its hexadecimal name: "xC3" is the byte 0xC3.     *)
(***************************************************************************)
\* The printable ASCII characters in code order, 0x20 first; the grave accent
\* is written by its name x60.
Printable ==
    <<" ", "!", "\"", "#", "$", "%", "&", "'", "(", ")", "*", "+", ",",
      "-", ".", "/", "0", "1", "2", "3", "4", "5", "6", "7", "8", "9", ":",
      ";", "<", "=", ">", "?", "@", "A", "B", "C", "D", "E", "F", "G", "H",
      "I", "J", "K", "L", "M", "N", "O", "P", "Q", "R", "S", "T", "U", "V",
      "W", "X", "Y", "Z", "[", "\\", "]", "^", "_", "x60", "a", "b", "c",
      "d", "e", "f", "g", "h", "i", "j", "k", "l", "m", "n", "o", "p", "q",
      "r", "s", "t", "u", "v", "w", "x", "y", "z", "{", "|", "}", "~">>

\* The other bytes the model writes, with their values.
NamedBytes ==
    [b \in {"\t", "\n", "\r", "x01", "xA0", "xA9", "xBD", "xBF", "xC2",
            "xC3", "xEF", "xFF"} |->
        CASE b = "\t" -> 9
          [] b = "\n" -> 10
          [] b = "\r" -> 13
          [] b = "x01" -> 1
          [] b = "xA0" -> 160
          [] b = "xA9" -> 169
          [] b = "xBD" -> 189
          [] b = "xBF" -> 191
          [] b = "xC2" -> 194
          [] b = "xC3" -> 195
          [] b = "xEF" -> 239
          [] b = "xFF" -> 255]

Bytes == Range(Printable) \cup DOMAIN NamedBytes

\* Value of a byte, 0..255.
Ord(b) ==
    IF b \in DOMAIN NamedBytes
    THEN NamedBytes[b]
    ELSE 31 + (CHOOSE k \in 1..Len(Printable) : Printable[k] = b)

\* utf8.RuneError, U+FFFD.
RuneError == 65533

IsCont(s, p) == p <= Len(s) /\ Ord(s[p]) \in 128..191

\* utf8.DecodeRuneInString(s[p:]): the code point that starts at position p
\* of s and the bytes it takes; (RuneError, 1) for a byte that starts no
\* well-formed sequence.
DecodeRune(s, p) ==
    LET b0 == Ord(s[p])
        b1 == Ord(s[p + 1])
        b2 == Ord(s[p + 2])
        b3 == Ord(s[p + 3])
        invalid == [rune |-> RuneError, size |-> 1]
    IN  IF b0 < 128 THEN [rune |-> b0, size |-> 1]
        ELSE IF b0 \in 194..223
        THEN IF IsCont(s, p + 1)
             THEN [rune |-> (b0 - 192) * 64 + (b1 - 128), size |-> 2]
             ELSE invalid
        ELSE IF b0 \in 224..239
        THEN IF /\ IsCont(s, p + 1)
                /\ IsCont(s, p + 2)
                /\ b0 = 224 => b1 >= 160
                /\ b0 = 237 => b1 <= 159
             THEN [rune |-> (b0 - 224) * 4096 + (b1 - 128) * 64 + (b2 - 128),
                   size |-> 3]
             ELSE invalid
        ELSE IF b0 \in 240..244
        THEN IF /\ IsCont(s, p + 1)
                /\ IsCont(s, p + 2)
                /\ IsCont(s, p + 3)
                /\ b0 = 240 => b1 >= 144
                /\ b0 = 244 => b1 <= 143
             THEN [rune |-> (b0 - 240) * 262144 + (b1 - 128) * 4096
                              + (b2 - 128) * 64 + (b3 - 128),
                   size |-> 4]
             ELSE invalid
        ELSE invalid

(***************************************************************************)
(* ExtendedString.Split and ExtendedString.Fields (main.go:136-143,        *)
(* 176-183): strings.Split and strings.Fields, each piece converted back.  *)
(***************************************************************************)
\* strings.Index(s, sep) for a sep that is not empty, counted from 1; 0 when
\* sep does not occur in s.
Index(s, sep) ==
    LET hits == {k \in 1..(Len(s) - Len(sep) + 1) :
                    SubSeq(s, k, k + Len(sep) - 1) = sep}
    IN  IF hits = {} THEN 0 ELSE Min(hits)

\* strings.explode(s, -1): one piece for each UTF-8 sequence, a byte that
\* starts no well-formed sequence being a piece of its own.
RECURSIVE explode(_)
explode(s) ==
    IF s = <<>> THEN <<>>
    ELSE LET size == DecodeRune(s, 1).size
         IN  <<SubSeq(s, 1, size)>> \o explode(Suffix(s, size + 1))

\* strings.genSplit(s, sep, 0, -1) for a sep that is not empty: cut at each
\* occurrence of sep, found from the left, none overlapping another.
RECURSIVE genSplit(_, _)
genSplit(s, sep) ==
    LET m == Index(s, sep)
    IN  IF m = 0 THEN <<s>>
        ELSE <<SubSeq(s, 1, m - 1)>> \o genSplit(Suffix(s, m + Len(sep)), sep)

\* Faulty variant of Split: the empty pieces are left out.
SplitDropEmpty(s, sep) ==
    LET NotEmpty(x) == x # <<>>
    IN  SelectSeq(IF sep = <<>> THEN explode(s) ELSE genSplit(s, sep),
                  NotEmpty)

\* Faulty variant of Split: the empty text has no piece.
SplitEmptyText(s, sep) ==
    IF s = <<>> THEN <<>>
    ELSE IF sep = <<>> THEN explode(s) ELSE genSplit(s, sep)

\* Faulty variant of Split: the empty separator cuts after every byte.
SplitBytes(s, sep) ==
    IF sep = <<>> THEN [k \in 1..Len(s) |-> <<s[k]>>] ELSE genSplit(s, sep)

\* es.Split(sep).
Split(s, sep) == IF sep = <<>> THEN explode(s) ELSE genSplit(s, sep)

\* Faulty variant of IsSpace: the white space of ASCII only.
IsSpaceASCII(r) == r \in {9, 10, 11, 12, 13, 32}

\* unicode.IsSpace, on the code point.
IsSpace(r) ==
    r \in {9, 10, 11, 12, 13, 32, 133, 160, 5760, 8232, 8233, 8239, 8287,
           12288} \cup (8192..8202)

\* strings.Fields from position p on: cur is the field being read, acc the
\* fields read so far.
RECURSIVE FieldsFrom(_, _, _, _)
FieldsFrom(s, p, cur, acc) ==
    LET flushed == IF cur = <<>> THEN acc ELSE Append(acc, cur)
    IN  IF p > Len(s) THEN flushed
        ELSE LET d == DecodeRune(s, p)
             IN  IF IsSpace(d.rune)
                 THEN FieldsFrom(s, p + d.size, <<>>, flushed)
                 ELSE FieldsFrom(s, p + d.size,
                                 cur \o SubSeq(s, p, p + d.size - 1), acc)

\* es.Fields().
Fields(s) == FieldsFrom(s, 1, <<>>, <<>>)

(***************************************************************************)
(* The files LoadFile reads (main.go:147-167): os.ReadFile                 *)
(***************************************************************************)
\* os.PathSeparator of the platform the model is of.
PathSeparator == "/"

\* The working directory of the process, as the names from the root.
Cwd == << <<"w">> >>

NameATxt == <<"a", ".", "t", "x", "t">>

NameConf == <<"c", "o", "n", "f">>

NameSecret == <<"s", "e", "c", "r", "e", "t">>

Dir == [kind |-> "dir", readable |-> TRUE, content |-> <<>>]

File(readable, content) ==
    [kind |-> "file", readable |-> readable, content |-> content]

\* The files of the machine, each under its names from the root:
\*   /            /a.txt "R"
\*   /w           /w/a.txt "A"      /w/secret (no permission to read)
\*   /w/conf      /w/conf/a.txt "B\n"
FileSystem ==
    LET root == <<>>
        work == Cwd
        conf == Cwd \o <<NameConf>>
    IN  [f \in {root, work, conf, root \o <<NameATxt>>, work \o <<NameATxt>>,
                work \o <<NameSecret>>, conf \o <<NameATxt>>} |->
            IF f \in {root, work, conf} THEN Dir
            ELSE IF f = root \o <<NameATxt>> THEN File(TRUE, <<"R">>)
            ELSE IF f = work \o <<NameATxt>> THEN File(TRUE, <<"A">>)
            ELSE IF f = conf \o <<NameATxt>> THEN File(TRUE, <<"B", "\n">>)
            ELSE File(FALSE, <<"S">>)]

\* The names of a path, between its separators.
Components(name) == genSplit(name, <<PathSeparator>>)

\* Path resolution of open(2): from the directory at, follow the names left;
\* the file reached, or the error that stops the walk.
RECURSIVE Walk(_, _)
Walk(at, names) ==
    IF at \notin DOMAIN FileSystem THEN [err |-> "ENOENT", at |-> at]
    ELSE IF names = <<>> THEN [err |-> "", at |-> at]
    ELSE IF FileSystem[at].kind # "dir" THEN [err |-> "ENOTDIR", at |-> at]
    ELSE IF Head(names) \in {<<>>, <<".">>} THEN Walk(at, Tail(names))
    ELSE IF Head(names) = <<".", ".">>
    THEN Walk(IF at = <<>> THEN at ELSE SubSeq(at, 1, Len(at) - 1),
              Tail(names))
    ELSE Walk(Append(at, Head(names)), Tail(names))

\* os.ReadFile(name): the whole content of the file, or an error.
ReadFile(name) ==
    LET absolute == name # <<>> /\ name[1] = PathSeparator
        w == Walk(IF absolute THEN <<>> ELSE Cwd, Components(name))
        failed(e) == [err |-> e, data |-> <<>>]
    IN  IF name = <<>> THEN failed("ENOENT")
        ELSE IF w.err # "" THEN failed(w.err)
        ELSE IF ~FileSystem[w.at].readable THEN failed("EACCES")
        ELSE IF FileSystem[w.at].kind = "dir" THEN failed("EISDIR")
        ELSE [err |-> "", data |-> FileSystem[w.at].content]

\* What main.go:149 and main.go:162 write to standard error: the path and,
\* under %v, the data read (not the error).
ErrorReadingFile(name, fileData) ==
    [msg |-> "Error reading file", path |-> name, data |-> fileData]

\* Faulty variant of LoadFile: a failed read returns the path.
LoadFileEcho(s) ==
    LET r == ReadFile(s)
    IN  IF r.err # ""
        THEN [ret |-> s, diag |-> <<ErrorReadingFile(s, r.data)>>,
              path |-> s]
        ELSE [ret |-> r.data, diag |-> <<>>, path |-> s]

\* es.LoadFile(): what it returns, what it writes to standard error, and the
\* path it has handed to os.ReadFile.
LoadFile(s) ==
    LET r == ReadFile(s)
    IN  IF r.err # ""
        THEN [ret |-> <<>>, diag |-> <<ErrorReadingFile(s, r.data)>>,
              path |-> s]
        ELSE [ret |-> r.data, diag |-> <<>>, path |-> s]

\* strings.Join(elems, sep).
RECURSIVE Join(_, _)
Join(elems, sep) ==
    IF elems = <<>> THEN <<>>
    ELSE IF Len(elems) = 1 THEN elems[1]
    ELSE elems[1] \o sep \o Join(Tail(elems), sep)

\* Faulty variant of LoadRelativeFile: an empty base path adds no separator,
\* as path/filepath.Join has it.
LoadRelativeFileClean(s, basePath) ==
    LET fullPath == IF basePath = <<>> THEN s
                    ELSE Join(<<basePath, s>>, <<PathSeparator>>)
        r == ReadFile(fullPath)
    IN  IF r.err # ""
        THEN [ret |-> <<>>, diag |-> <<ErrorReadingFile(fullPath, r.data)>>,
              path |-> fullPath]
        ELSE [ret |-> r.data, diag |-> <<>>, path |-> fullPath]

\* es.LoadRelativeFile(basePath).
LoadRelativeFile(s, basePath) ==
    LET fullPath == Join(<<basePath, s>>, <<PathSeparator>>)
        r == ReadFile(fullPath)
    IN  IF r.err # ""
        THEN [ret |-> <<>>, diag |-> <<ErrorReadingFile(fullPath, r.data)>>,
              path |-> fullPath]
        ELSE [ret |-> r.data, diag |-> <<>>, path |-> fullPath]

\* es.LoadRelativeFileES(basePath): the base path is an ExtendedString.
LoadRelativeFileES(s, basePath) == LoadRelativeFile(s, basePath)

(***************************************************************************)
(* ExtendedString.ToJSON (main.go:186-193): json.Marshal of a string       *)
(***************************************************************************)
\* The digits json writes a \u escape with.
hex ==
    <<"0", "1", "2", "3", "4", "5", "6", "7", "8", "9", "a", "b", "c", "d",
      "e", "f">>

\* The body of the string literal from position p of s on.  json.Marshal
\* escapes HTML: < > & are written as \u003c \u003e \u0026.
RECURSIVE EncodeStringFrom(_, _)
EncodeStringFrom(s, p) ==
    IF p > Len(s) THEN <<>>
    ELSE LET b == s[p]
             o == Ord(b)
             d == DecodeRune(s, p)
         IN  IF o < 128
             THEN (IF b \in {"\\", "\""} THEN <<"\\", b>>
                   ELSE IF b = "\n" THEN <<"\\", "n">>
                   ELSE IF b = "\r" THEN <<"\\", "r">>
                   ELSE IF b = "\t" THEN <<"\\", "t">>
                   ELSE IF o < 32 \/ b \in {"<", ">", "&"}
                   THEN <<"\\", "u", "0", "0", hex[(o \div 16) + 1],
                          hex[(o % 16) + 1]>>
                   ELSE <<b>>)
                  \o EncodeStringFrom(s, p + 1)
             ELSE (IF d.rune = RuneError /\ d.size = 1
                   THEN <<"\\", "u", "f", "f", "f", "d">>
                   ELSE IF d.rune \in {8232, 8233}
                   THEN <<"\\", "u", "2", "0", "2", hex[(d.rune % 16) + 1]>>
                   ELSE SubSeq(s, p, p + d.size - 1))
                  \o EncodeStringFrom(s, p + d.size)

\* json.Marshal(es): a string always encodes, err is nil.
Marshal(s) ==
    [err |-> FALSE, data |-> <<"\"">> \o EncodeStringFrom(s, 1) \o <<"\"">>]

ErrorConvertingToJSON(s) == [msg |-> "Error converting to json", text |-> s]

\* Faulty variant of ToJSON: the text between two quotes, as it is.
ToJSONQuoteOnly(s) == [ret |-> <<"\"">> \o s \o <<"\"">>, diag |-> <<>>]

\* es.ToJSON().
ToJSON(s) ==
    LET m == Marshal(s)
    IN  IF m.err THEN [ret |-> <<>>, diag |-> <<ErrorConvertingToJSON(s)>>]
        ELSE [ret |-> m.data, diag |-> <<>>]

(***************************************************************************)
(* ExtendedString.ToBase64 (main.go:196-198): base64.StdEncoding           *)
(***************************************************************************)
\* The alphabet of StdEncoding, the character of value 0 first.
encodeStd ==
    <<"A", "B", "C", "D", "E", "F", "G", "H", "I", "J", "K", "L", "M", "N",
      "O", "P", "Q", "R", "S", "T", "U", "V", "W", "X", "Y", "Z", "a", "b",
      "c", "d", "e", "f", "g", "h", "i", "j", "k", "l", "m", "n", "o", "p",
      "q", "r", "s", "t", "u", "v", "w", "x", "y", "z", "0", "1", "2", "3",
      "4", "5", "6", "7", "8", "9", "+", "/">>

\* StdPadding.
StdPadding == "="

\* The character of the k-th group of six bits, from the right, of val.
Sextet(val, k) ==
    encodeStd[((val \div (IF k = 3 THEN 262144 ELSE IF k = 2 THEN 4096
                          ELSE IF k = 1 THEN 64 ELSE 1)) % 64) + 1]

\* StdEncoding.EncodeToString(src): four characters for three bytes, the
\* last group filled up with padding.
RECURSIVE EncodeToString(_)
EncodeToString(src) ==
    IF src = <<>> THEN <<>>
    ELSE IF Len(src) = 1
    THEN LET val == Ord(src[1]) * 65536
         IN  <<Sextet(val, 3), Sextet(val, 2), StdPadding, StdPadding>>
    ELSE IF Len(src) = 2
    THEN LET val == Ord(src[1]) * 65536 + Ord(src[2]) * 256
         IN  <<Sextet(val, 3), Sextet(val, 2), Sextet(val, 1), StdPadding>>
    ELSE LET val == Ord(src[1]) * 65536 + Ord(src[2]) * 256 + Ord(src[3])
         IN  <<Sextet(val, 3), Sextet(val, 2), Sextet(val, 1),
               Sextet(val, 0)>> \o EncodeToString(Suffix(src, 4))

\* Faulty variant of ToBase64: no padding, as RawStdEncoding has it.
ToBase64Raw(s) ==
    LET NotPadding(c) == c # StdPadding
    IN  SelectSeq(EncodeToString(s), NotPadding)

\* es.ToBase64().
ToBase64(s) == EncodeToString(s)

(***************************************************************************)
(* The render: the template calls Filter on the context and the methods of *)
(* ExtendedString on its values                                            *)
(***************************************************************************)
KeyFILE == <<"F", "I", "L", "E">>

KeyCONFIG_DIR == <<"C", "O", "N", "F", "I", "G", "_", "D", "I", "R">>

KeyTESTVAR == <<"T", "E", "S", "T", "V", "A", "R">>

\* Values of FILE: a file of the working directory, no file, a file that
\* may not be read, a directory, a file named through the parent directory.
NameMissing == <<"m", "i", "s", "s", "i", "n", "g">>

NameUpATxt == <<".", ".", "/", "a", ".", "t", "x", "t">>

FilePaths == {NameATxt, NameMissing, NameSecret, NameConf, NameUpATxt}

\* Values of CONFIG_DIR.
ConfigDirs == {<<"c", "o", "n", "f", "/">>, <<>>}

\* Base paths a template writes as string constants.
BasePaths == {NameConf, <<".">>, <<>>}

TextList == <<"a", ",", "b", " ", "c">>

\* Separators a template writes as string constants.
Separators == {<<",">>, <<",", ",">>, <<" ">>, <<>>}

RenderContexts ==
    {[k \in {KeyFILE, KeyCONFIG_DIR, KeyTESTVAR} |->
        IF k = KeyFILE THEN f ELSE IF k = KeyCONFIG_DIR THEN d ELSE TextList] :
     f \in FilePaths, d \in ConfigDirs}

InitRender ==
    /\ environ = <<>>
    /\ pc = "render"
    /\ i = 1
    /\ envMap \in RenderContexts
    /\ prevMap = NoRun
    /\ op = "none"
    /\ pattern = <<>>
    /\ rv = EmptyMap
    /\ stderr = <<>>
    /\ es = <<>>
    /\ arg = <<>>
    /\ ret = <<>>
    /\ reads = <<>>
    /\ MainAtRest
    /\ LibAtRest

\* The values the template calls Split, Fields, ToJSON and ToBase64 on: any
\* value of the context.
Receivers == Range(envMap)

\* The values the template takes for the name of a file: that of FILE, and
\* for its directory that of CONFIG_DIR (part_002:79-101).
FileNames == {envMap[k] : k \in {KeyFILE} \cap DOMAIN envMap}

ConfigDirNames == {envMap[k] : k \in {KeyCONFIG_DIR} \cap DOMAIN envMap}

\* {[ v.Split sep ]}: main.go:136-143.
CallSplit ==
    /\ pc = "render"
    /\ \E s \in Receivers : \E sep \in Separators :
        /\ op' = "Split"
        /\ es' = s
        /\ arg' = sep
        /\ ret' = Split(s, sep)
        /\ reads' = <<>>
    /\ pattern' = <<>>
    /\ rv' = EmptyMap
    /\ UNCHANGED <<environ, pc, i, envMap, prevMap, stderr>>
    /\ UNCHANGED <<mainVars, libVars>>

\* {[ v.Fields ]}: main.go:176-183.
CallFields ==
    /\ pc = "render"
    /\ \E s \in Receivers :
        /\ op' = "Fields"
        /\ es' = s
        /\ arg' = <<>>
        /\ ret' = Fields(s)
        /\ reads' = <<>>
    /\ pattern' = <<>>
    /\ rv' = EmptyMap
    /\ UNCHANGED <<environ, pc, i, envMap, prevMap, stderr>>
    /\ UNCHANGED <<mainVars, libVars>>

\* {[ v.LoadFile ]}: main.go:147-154.
CallLoadFile ==
    /\ pc = "render"
    /\ \E s \in FileNames :
        LET r == LoadFile(s)
        IN  /\ Len(stderr \o r.diag) <= MaxDiagnostics
            /\ op' = "LoadFile"
            /\ es' = s
            /\ arg' = <<>>
            /\ ret' = r.ret
            /\ reads' = <<r.path>>
            /\ stderr' = stderr \o r.diag
    /\ pattern' = <<>>
    /\ rv' = EmptyMap
    /\ UNCHANGED <<environ, pc, i, envMap, prevMap>>
    /\ UNCHANGED <<mainVars, libVars>>

\* {[ v.LoadRelativeFile "base" ]}: main.go:159-167.
CallLoadRelativeFile ==
    /\ pc = "render"
    /\ \E s \in FileNames : \E basePath \in BasePaths :
        LET r == LoadRelativeFile(s, basePath)
        IN  /\ Len(stderr \o r.diag) <= MaxDiagnostics
            /\ op' = "LoadRelativeFile"
            /\ es' = s
            /\ arg' = basePath
            /\ ret' = r.ret
            /\ reads' = <<r.path>>
            /\ stderr' = stderr \o r.diag
    /\ pattern' = <<>>
    /\ rv' = EmptyMap
    /\ UNCHANGED <<environ, pc, i, envMap, prevMap>>
    /\ UNCHANGED <<mainVars, libVars>>

\* {[ v.LoadRelativeFileES .CONFIG_DIR ]}: main.go:168-170.
CallLoadRelativeFileES ==
    /\ pc = "render"
    /\ \E s \in FileNames : \E basePath \in ConfigDirNames :
        LET r == LoadRelativeFileES(s, basePath)
        IN  /\ Len(stderr \o r.diag) <= MaxDiagnostics
            /\ op' = "LoadRelativeFileES"
            /\ es' = s
            /\ arg' = basePath
            /\ ret' = r.ret
            /\ reads' = <<r.path>>
            /\ stderr' = stderr \o r.diag
    /\ pattern' = <<>>
    /\ rv' = EmptyMap
    /\ UNCHANGED <<environ, pc, i, envMap, prevMap>>
    /\ UNCHANGED <<mainVars, libVars>>

\* {[ v.ToJSON ]}: main.go:186-193.
CallToJSON ==
    /\ pc = "render"
    /\ \E s \in Receivers :
        LET r == ToJSON(s)
        IN  /\ Len(stderr \o r.diag) <= MaxDiagnostics
            /\ op' = "ToJSON"
            /\ es' = s
            /\ arg' = <<>>
            /\ ret' = r.ret
            /\ reads' = <<>>
            /\ stderr' = stderr \o r.diag
    /\ pattern' = <<>>
    /\ rv' = EmptyMap
    /\ UNCHANGED <<environ, pc, i, envMap, prevMap>>
    /\ UNCHANGED <<mainVars, libVars>>

\* {[ v.ToBase64 ]}: main.go:196-198.
CallToBase64 ==
    /\ pc = "render"
    /\ \E s \in Receivers :
        /\ op' = "ToBase64"
        /\ es' = s
        /\ arg' = <<>>
        /\ ret' = ToBase64(s)
        /\ reads' = <<>>
    /\ pattern' = <<>>
    /\ rv' = EmptyMap
    /\ UNCHANGED <<environ, pc, i, envMap, prevMap, stderr>>
    /\ UNCHANGED <<mainVars, libVars>>

\* tmplt.Execute has returned nil: os.Exit(0), main.go:90-97.
ExitRender ==
    /\ pc = "render"
    /\ pc' = "exit0"
    /\ UNCHANGED <<environ, i, envMap, prevMap, op, pattern, rv, stderr, es,
                   arg, ret, reads>>
    /\ UNCHANGED <<mainVars, libVars>>

NextRender ==
    \/ CallFilter
    \/ CallSplit
    \/ CallFields
    \/ CallLoadFile
    \/ CallLoadRelativeFile
    \/ CallLoadRelativeFileES
    \/ CallToJSON
    \/ CallToBase64
    \/ ExitRender

SpecRender == InitRender /\ [][NextRender]_vars

(***************************************************************************)
(* The methods of ExtendedString on any text                               *)
(***************************************************************************)
\* Longest generated text, counted in units of TextUnits.
MaxUnits == 3

\* The units texts are made of: a letter, the comma, the space, the double
\* quote, the backslash, the line feed, '<', U+00E9 (two bytes), U+00A0 (the
\* no-break space, two bytes) and the byte 0xFF, which no UTF-8 sequence has.
TextUnits ==
    { <<"a">>, <<",">>, <<" ">>, <<"\"">>, <<"\\">>, <<"\n">>, <<"<">>,
      <<"xC3", "xA9">>, <<"xC2", "xA0">>, <<"xFF">> }

\* The concatenations of at most n units.
RECURSIVE UnitStrings(_)
UnitStrings(n) ==
    IF n = 0 THEN { <<>> }
    ELSE LET S == UnitStrings(n - 1)
         IN  S \cup {v \o u : v \in S, u \in TextUnits}

Texts == UnitStrings(MaxUnits)

\* A context of one variable, of any text.
InitText ==
    /\ environ = <<>>
    /\ pc = "render"
    /\ i = 1
    /\ envMap \in {[k \in {KeyTESTVAR} |-> t] : t \in Texts}
    /\ prevMap = NoRun
    /\ op = "none"
    /\ pattern = <<>>
    /\ rv = EmptyMap
    /\ stderr = <<>>
    /\ es = <<>>
    /\ arg = <<>>
    /\ ret = <<>>
    /\ reads = <<>>
    /\ MainAtRest
    /\ LibAtRest

NextText == CallSplit \/ CallFields \/ CallToJSON \/ CallToBase64

SpecText == InitText /\ [][NextText]_vars

(***************************************************************************)
(* Properties of the render                                                *)
(***************************************************************************)
\* C11: a Filter call with a pattern that does not compile returns an empty
\* context, whatever the context holds, and its error is the last thing
\* written to standard error; the run is not aborted: it is still rendering
\* or has left with status 0.
C11_InvalidPatternEmptyContext ==
    (op = "Filter" /\ pattern \in InvalidPatterns) =>
        /\ DOMAIN rv = {}
        /\ stderr # <<>>
        /\ stderr[Len(stderr)].msg = "Invalid pattern"
        /\ stderr[Len(stderr)].pattern = pattern
        /\ pc \in {"render", "exit0"}
        /\ pc = "render" => ENABLED ExitRender

\* The run has left with status 0 after a Filter call with a pattern that
\* does not compile, on a context that has keys.
C11_Witness ==
    /\ pc = "exit0"
    /\ op = "Filter"
    /\ pattern \in InvalidPatterns
    /\ DOMAIN envMap # {}
    /\ DOMAIN rv = {}
    /\ Len(stderr) = 1

MethodNames ==
    {"Split", "Fields", "LoadFile", "LoadRelativeFile", "LoadRelativeFileES",
     "ToJSON", "ToBase64"}

\* C12: no step of the render changes the context: after a Filter call or a
\* call of a method of ExtendedString the context has the keys and values
\* it had before, and the receiver of a method is still a value of it.
C12_ContextReadOnly ==
    [][pc = "render" =>
        /\ envMap' = envMap
        /\ (pc' = "render" /\ op' \in MethodNames) => es' \in Range(envMap')
      ]_vars

\* Split has been called on the value of TESTVAR, after a call that wrote a
\* diagnostic, and the context still has its three keys.
C12_Witness ==
    /\ Cardinality(DOMAIN envMap) = 3
    /\ stderr # <<>>
    /\ op = "Split"
    /\ es = envMap[KeyTESTVAR]
    /\ Len(ret) > 1

\* The last thing written to standard error is the report of a failed read
\* of the file name.
ReportedUnreadable(name) ==
    /\ stderr # <<>>
    /\ stderr[Len(stderr)].msg = "Error reading file"
    /\ stderr[Len(stderr)].path = name

\* C13: LoadFile on a path that cannot be read (no such file, no permission,
\* a directory) returns the empty text and reports on standard error; the
\* run is not aborted: it is still rendering or has left with status 0.
\* LoadFile on a file that can be read returns its whole content.
C13_LoadFile ==
    op = "LoadFile" =>
        /\ es \in {NameMissing, NameSecret, NameConf} =>
            ret = <<>> /\ ReportedUnreadable(es)
        /\ es = NameATxt => ret = <<"A">>
        /\ es = NameUpATxt => ret = <<"R">>
        /\ es \in FilePaths
        /\ pc \in {"render", "exit0"}
        /\ pc = "render" => ENABLED ExitRender

\* The run has left with status 0 after LoadFile on a file it may not read.
C13_Witness ==
    /\ pc = "exit0"
    /\ op = "LoadFile"
    /\ es = NameSecret
    /\ ret = <<>>
    /\ Len(stderr) = 1

\* C14: LoadRelativeFile(base) on the value v hands os.ReadFile exactly
\* base, the path separator and v, one after the other, whatever base and v
\* are: an empty base gives a path from the root, a base that ends with the
\* separator gives two separators, a ".." stays in the path.  It returns
\* what LoadFile returns for that path, and the empty text with a report on
\* standard error when the path cannot be read.  LoadRelativeFileES returns
\* what LoadRelativeFile returns for the text of its base.
C14_LoadRelativeFile ==
    op \in {"LoadRelativeFile", "LoadRelativeFileES"} =>
        LET joined == arg \o <<"/">> \o es
        IN  /\ reads = <<joined>>
            /\ ret = LoadFile(joined).ret
            /\ LoadFile(joined).diag # <<>> =>
                ret = <<>> /\ ReportedUnreadable(joined)
            /\ (arg = <<>> /\ es = NameATxt) => ret = <<"R">>
            /\ (arg = NameConf \o <<"/">> /\ es = NameATxt) =>
                ret = <<"B", "\n">>
            /\ (arg = NameConf /\ es = NameUpATxt) => ret = <<"A">>
            /\ op = "LoadRelativeFileES" => ret = LoadRelativeFile(es, arg).ret

\* LoadRelativeFileES with an empty base has read /a.txt, not a.txt.
C14_Witness ==
    /\ op = "LoadRelativeFileES"
    /\ arg = <<>>
    /\ es = NameATxt
    /\ reads = << <<"/", "a", ".", "t", "x", "t">> >>
    /\ ret = <<"R">>

(***************************************************************************)
(* Properties of the methods of ExtendedString                             *)
(***************************************************************************)
\* The pieces written one after the other with sep between them.
RECURSIVE Joined(_, _)
Joined(pieces, sep) ==
    IF Len(pieces) = 0 THEN <<>>
    ELSE IF Len(pieces) = 1 THEN pieces[1]
    ELSE Joined(SubSeq(pieces, 1, Len(pieces) - 1), sep) \o sep
         \o pieces[Len(pieces)]

\* The text t occurs in the text s.
Occurs(t, s) ==
    \E k \in 0..(Len(s) - Len(t)) :
        \A j \in 1..Len(t) : s[k + j] = t[j]

\* C15: the pieces Split returns, written in order with the separator
\* between them, are the text that was split, for any text and separator.
C15_SplitJoinInverse ==
    op = "Split" => Joined(ret, arg) = es

\* ",,," has been split at ",,": an empty piece and ",".
C15_Witness ==
    /\ op = "Split"
    /\ es = <<",", ",", ",">>
    /\ arg = <<",", ",">>
    /\ ret = << <<>>, <<",">> >>

\* C16: Split with a separator that is not empty and does not occur in the
\* text returns one piece, the text itself, the empty text included.
C16_SplitIdentity ==
    (op = "Split" /\ arg # <<>> /\ ~Occurs(arg, es)) => ret = <<es>>

\* The empty text has been split at ",": one piece, empty.
C16_Witness ==
    /\ op = "Split"
    /\ es = <<>>
    /\ arg = <<",">>
    /\ ret = << <<>> >>

\* The code points of a text, each as the bytes that encode it; a byte that
\* belongs to no code point stands for itself.
RECURSIVE CodePoints(_)
CodePoints(s) ==
    IF s = <<>> THEN <<>>
    ELSE LET long == {u \in TextUnits :
                        Len(u) > 1 /\ Len(u) <= Len(s)
                        /\ SubSeq(s, 1, Len(u)) = u}
             n == IF long = {} THEN 1 ELSE Len(CHOOSE u \in long : TRUE)
         IN  <<SubSeq(s, 1, n)>> \o CodePoints(SubSeq(s, n + 1, Len(s)))

\* C17: Split with the empty separator returns the code points of the text
\* in order, one piece each, so as many pieces as the text has code points;
\* for the empty text it returns no piece.
C17_SplitEmptySeparator ==
    (op = "Split" /\ arg = <<>>) =>
        /\ ret = CodePoints(es)
        /\ Len(ret) = Len(CodePoints(es))
        /\ es = <<>> => ret = <<>>

\* A text of three code points in five bytes has been split into three.
C17_Witness ==
    /\ op = "Split"
    /\ arg = <<>>
    /\ es = <<"xC3", "xA9", "a", "xC2", "xA0">>
    /\ Len(ret) = 3

\* The byte at position p of s belongs to a whitespace character: a space,
\* a line feed or the no-break space U+00A0.
WhiteAt(s, p) ==
    \/ s[p] \in {" ", "\n"}
    \/ s[p] = "xC2" /\ p < Len(s) /\ s[p + 1] = "xA0"
    \/ s[p] = "xA0" /\ p > 1 /\ s[p - 1] = "xC2"

\* Where the maximal runs of characters that are not whitespace start.
RunStarts(s) ==
    {a \in 1..Len(s) : ~WhiteAt(s, a) /\ (a = 1 \/ WhiteAt(s, a - 1))}

\* Where the run that starts at a ends.
RunEnd(s, a) ==
    CHOOSE b \in a..Len(s) :
        /\ \A p \in a..b : ~WhiteAt(s, p)
        /\ b = Len(s) \/ WhiteAt(s, b + 1)

\* C18: Fields returns the maximal runs of characters that are not
\* whitespace, in the order they have in the text; no piece is empty or
\* holds a whitespace character, and a text that is empty or all whitespace
\* gives no piece.
C18_Fields ==
    op = "Fields" =>
        /\ Len(ret) = Cardinality(RunStarts(es))
        /\ \A a \in RunStarts(es) :
            ret[Cardinality({x \in RunStarts(es) : x <= a})]
                = SubSeq(es, a, RunEnd(es, a))
        /\ \A k \in 1..Len(ret) :
            /\ ret[k] # <<>>
            /\ \A p \in 1..Len(ret[k]) : ~WhiteAt(ret[k], p)
        /\ (\A p \in 1..Len(es) : WhiteAt(es, p)) => ret = <<>>

\* "a", a no-break space and "," have given two fields.
C18_Witness ==
    /\ op = "Fields"
    /\ es = <<"a", "xC2", "xA0", ",">>
    /\ ret = << <<"a">>, <<",">> >>

\* The byte of value n.
Chr(n) == CHOOSE b \in Bytes : Ord(b) = n

\* Value of a hexadecimal digit.
HexVal(c) ==
    LET digits == <<"0", "1", "2", "3", "4", "5", "6", "7", "8", "9", "a",
                     "b", "c", "d", "e", "f">>
    IN  (CHOOSE k \in 1..16 : digits[k] = c) - 1

IsHex(c) == c \in Digit \cup {"a", "b", "c", "d", "e", "f"}

\* The UTF-8 encoding of a code point of the Basic Multilingual Plane.
UTF8(cp) ==
    IF cp < 128 THEN <<Chr(cp)>>
    ELSE IF cp < 2048 THEN <<Chr(192 + (cp \div 64)), Chr(128 + (cp % 64))>>
    ELSE <<Chr(224 + (cp \div 4096)), Chr(128 + ((cp \div 64) % 64)),
           Chr(128 + (cp % 64))>>

\* b, the text between the quotes of a JSON string, is written by the
\* grammar of JSON: no bare quote, no bare control character, and every
\* backslash starts an escape.
RECURSIVE WellEscaped(_)
WellEscaped(b) ==
    IF b = <<>> THEN TRUE
    ELSE IF b[1] = "\\"
    THEN /\ Len(b) >= 2
         /\ IF b[2] = "u"
            THEN /\ Len(b) >= 6
                 /\ \A k \in 3..6 : IsHex(b[k])
                 /\ WellEscaped(SubSeq(b, 7, Len(b)))
            ELSE /\ b[2] \in {"\"", "\\", "/", "b", "f", "n", "r", "t"}
                 /\ WellEscaped(SubSeq(b, 3, Len(b)))
    ELSE /\ b[1] # "\""
         /\ Ord(b[1]) >= 32
         /\ WellEscaped(SubSeq(b, 2, Len(b)))

\* The text a well-escaped b stands for.
RECURSIVE Unescaped(_)
Unescaped(b) ==
    IF b = <<>> THEN <<>>
    ELSE IF b[1] # "\\" THEN <<b[1]>> \o Unescaped(SubSeq(b, 2, Len(b)))
    ELSE IF b[2] = "u"
    THEN UTF8(HexVal(b[3]) * 4096 + HexVal(b[4]) * 256 + HexVal(b[5]) * 16
              + HexVal(b[6])) \o Unescaped(SubSeq(b, 7, Len(b)))
    ELSE <<(CASE b[2] = "n" -> "\n"
              [] b[2] = "r" -> "\r"
              [] b[2] = "t" -> "\t"
              [] OTHER -> b[2])>> \o Unescaped(SubSeq(b, 3, Len(b)))

\* lit is a JSON string literal.
IsJSONString(lit) ==
    /\ Len(lit) >= 2
    /\ lit[1] = "\""
    /\ lit[Len(lit)] = "\""
    /\ WellEscaped(SubSeq(lit, 2, Len(lit) - 1))

\* What decoding the JSON string literal lit gives.
JSONDecode(lit) == Unescaped(SubSeq(lit, 2, Len(lit) - 1))

\* A text is UTF-8 when each of its bytes belongs to a code point; of the
\* bytes of the texts only 0xFF belongs to none.
IsUTF8(s) == \A k \in 1..Len(s) : s[k] # "xFF"

\* The text with U+FFFD in the place of each byte that belongs to no code
\* point.
RECURSIVE Coerced(_)
Coerced(s) ==
    IF s = <<>> THEN <<>>
    ELSE (IF s[1] = "xFF" THEN <<"xEF", "xBF", "xBD">> ELSE <<s[1]>>)
         \o Coerced(SubSeq(s, 2, Len(s)))

\* C19 as the claim has it: for every value ToJSON returns a JSON string
\* literal, never the empty text, and decoding the literal gives the text of
\* the value.
C19_AsClaimed ==
    op = "ToJSON" =>
        /\ ret # <<>>
        /\ IsJSONString(ret)
        /\ JSONDecode(ret) = es

\* C19: for every value ToJSON returns a JSON string literal, never the
\* empty text: it starts and ends with a double quote, and every quote,
\* backslash and control character between them is escaped.  Decoding the
\* literal gives the text of the value when the text is UTF-8; a byte that
\* belongs to no code point comes back as U+FFFD.
C19_ToJSON ==
    op = "ToJSON" =>
        /\ ret # <<>>
        /\ IsJSONString(ret)
        /\ IsUTF8(es) => JSONDecode(ret) = es
        /\ JSONDecode(ret) = Coerced(es)
        /\ stderr = <<>>

\* A quote, a backslash and a line feed have been encoded.
C19_Witness ==
    /\ op = "ToJSON"
    /\ es = <<"\"", "\\", "\n">>
    /\ ret = <<"\"", "\\", "\"", "\\", "\\", "\\", "n", "\"">>

\* Value of a character of the standard base64 alphabet: A-Z, a-z, 0-9, '+'
\* and '/' stand for 0..63 in this order.
Base64Val(c) ==
    IF c \in Upper THEN Ord(c) - Ord("A")
    ELSE IF c \in Lower THEN 26 + Ord(c) - Ord("a")
    ELSE IF c \in Digit THEN 52 + Ord(c) - Ord("0")
    ELSE IF c = "+" THEN 62
    ELSE 63

IsBase64Char(c) == c \in Upper \cup Lower \cup Digit \cup {"+", "/"}

\* t is padded standard base64: groups of four characters of the alphabet,
\* the last group ending with no, one or two '='.
IsStdBase64(t) ==
    /\ Len(t) % 4 = 0
    /\ \A k \in 1..Len(t) :
        \/ IsBase64Char(t[k])
        \/ /\ t[k] = "="
           /\ k >= Len(t) - 1
           /\ k = Len(t) - 1 => t[Len(t)] = "="

\* The values of the bytes a padded standard base64 text t stands for.
RECURSIVE Base64Decode(_)
Base64Decode(t) ==
    IF t = <<>> THEN <<>>
    ELSE LET v1 == Base64Val(t[1])
             v2 == Base64Val(t[2])
             v3 == Base64Val(t[3])
             v4 == Base64Val(t[4])
             b1 == v1 * 4 + (v2 \div 16)
             b2 == (v2 % 16) * 16 + (v3 \div 4)
             b3 == (v3 % 4) * 64 + v4
         IN  IF t[3] = "=" THEN <<b1>>
             ELSE IF t[4] = "=" THEN <<b1, b2>>
             ELSE <<b1, b2, b3>> \o Base64Decode(SubSeq(t, 5, Len(t)))

\* C20: for any value ToBase64 returns padded standard base64: characters
\* of the standard alphabet with '=' padding at the end, four for every
\* three bytes of the value or part of three, and standard decoding of it
\* gives the bytes of the value.
C20_ToBase64 ==
    op = "ToBase64" =>
        /\ IsStdBase64(ret)
        /\ Len(ret) = 4 * ((Len(es) + 2) \div 3)
        /\ Base64Decode(ret) = [k \in 1..Len(es) |-> Ord(es[k])]

\* The two bytes 'a' and 0xFF have been encoded as "Yf8=".
C20_Witness ==
    /\ op = "ToBase64"
    /\ es = <<"a", "xFF">>
    /\ ret = <<"Y", "f", "8", "=">>

(***************************************************************************)
(* The template language (text/template), as main.go sets it up: the       *)
(* delimiters {[ and ]}, the option missingkey=zero and the context of     *)
(* type TemplateData.  Of the language the model has the text, the trim    *)
(* markers, fields and methods with their arguments, variables, string     *)
(* constants, function calls without arguments, if and range.              *)
(***************************************************************************)
\* main.go:50, Delims("{[", "]}").
LeftDelim == <<"{", "[">>

RightDelim == <<"]", "}">>

\* parse/lex.go: spaceChars.
spaceChars == {" ", "\t", "\r", "\n"}

HasPrefixAt(s, p, prefix) ==
    /\ p + Len(prefix) - 1 <= Len(s)
    /\ SubSeq(s, p, p + Len(prefix) - 1) = prefix

\* strings.TrimLeft(s, spaceChars) and strings.TrimRight(s, spaceChars).
RECURSIVE TrimLeft(_)
TrimLeft(s) ==
    IF s # <<>> /\ s[1] \in spaceChars THEN TrimLeft(Tail(s)) ELSE s

\* Faulty variant of TrimRight: nothing is trimmed.
TrimRightNothing(s) == s

RECURSIVE TrimRight(_)
TrimRight(s) ==
    IF s # <<>> /\ s[Len(s)] \in spaceChars
    THEN TrimRight(SubSeq(s, 1, Len(s) - 1))
    ELSE s

\* lex.go: atRightDelim.  The length of the closing delimiter at p, with its
\* trim marker (a space and '-') when it has one; 0 when none closes here.
atRightDelim(s, p) ==
    IF /\ p + 1 <= Len(s)
       /\ s[p] \in spaceChars
       /\ s[p + 1] = "-"
       /\ HasPrefixAt(s, p + 2, RightDelim)
    THEN 2 + Len(RightDelim)
    ELSE IF HasPrefixAt(s, p, RightDelim) THEN Len(RightDelim)
    ELSE 0

\* lex.go: lexQuote.  The position of the closing '"' of the string that
\* opened before p, a backslash taking the next character with it; 0 when
\* the string does not end on its line.
RECURSIVE lexQuote(_, _)
lexQuote(s, p) ==
    IF p > Len(s) \/ s[p] = "\n" THEN 0
    ELSE IF s[p] = "\\"
         THEN IF p + 1 > Len(s) \/ s[p + 1] = "\n" THEN 0
              ELSE lexQuote(s, p + 2)
    ELSE IF s[p] = "\"" THEN p
    ELSE lexQuote(s, p + 1)

\* lex.go: lexRawQuote.  The position of the closing back quote, 0 if none.
RECURSIVE lexRawQuote(_, _)
lexRawQuote(s, p) ==
    IF p > Len(s) THEN 0
    ELSE IF s[p] = "x60" THEN p
    ELSE lexRawQuote(s, p + 1)

\* The characters of a field, a variable or an identifier.
WordChars == AlphaNum \cup {".", "$"}

\* The end of the word that starts at p.
RECURSIVE lexWord(_, _)
lexWord(s, p) ==
    IF p + 1 <= Len(s) /\ s[p + 1] \in WordChars THEN lexWord(s, p + 1) ELSE p

\* lex.go: lexInsideAction, from p on.  The tokens up to the closing
\* delimiter, the position after it and whether it had a trim marker.
RECURSIVE lexInsideAction(_, _, _)
lexInsideAction(s, p, toks) ==
    LET failed(e) == [err |-> e, toks |-> <<>>, next |-> 0, trim |-> FALSE]
        close == atRightDelim(s, p)
    IN  IF close > 0
        THEN [err |-> "", toks |-> toks, next |-> p + close,
              trim |-> close > Len(RightDelim)]
        ELSE IF p > Len(s) THEN failed("unclosed action")
        ELSE IF s[p] \in spaceChars THEN lexInsideAction(s, p + 1, toks)
        ELSE IF s[p] = "\""
             THEN LET q == lexQuote(s, p + 1)
                  IN  IF q = 0 THEN failed("unterminated quoted string")
                      ELSE lexInsideAction(s, q + 1,
                               Append(toks, [typ |-> "string",
                                             val |-> SubSeq(s, p + 1, q - 1)]))
        ELSE IF s[p] = "x60"
             THEN LET q == lexRawQuote(s, p + 1)
                  IN  IF q = 0 THEN failed("unterminated raw quoted string")
                      ELSE lexInsideAction(s, q + 1,
                               Append(toks, [typ |-> "rawstring",
                                             val |-> SubSeq(s, p + 1, q - 1)]))
        ELSE IF HasPrefixAt(s, p, <<":", "=">>)
             THEN lexInsideAction(s, p + 2,
                      Append(toks, [typ |-> "char", val |-> <<":", "=">>]))
        ELSE IF s[p] = ","
             THEN lexInsideAction(s, p + 1,
                      Append(toks, [typ |-> "char", val |-> <<",">>]))
        ELSE IF s[p] \in WordChars
             THEN LET q == lexWord(s, p)
                  IN  lexInsideAction(s, q + 1,
                          Append(toks, [typ |-> "word",
                                        val |-> SubSeq(s, p, q)]))
        ELSE failed("unrecognized character in action")

\* lex.go: lexText, lexLeftDelim, lexRightDelim.  The items of a template
\* text: the texts between the actions, trimmed where the action next to
\* them has a trim marker, and the actions as their tokens.  trimmed tells
\* that the action before s closed with a trim marker.
RECURSIVE lex(_, _)
lex(s, trimmed) ==
    LET text == IF trimmed THEN TrimLeft(s) ELSE s
        x == Index(text, LeftDelim)
        textItem(t) == IF t = <<>> THEN <<>>
                       ELSE << [typ |-> "text", val |-> t] >>
    IN  IF x = 0 THEN [err |-> "", items |-> textItem(text)]
        ELSE LET after == x + Len(LeftDelim)
                 leftTrim == /\ after + 1 <= Len(text)
                             /\ text[after] = "-"
                             /\ text[after + 1] \in spaceChars
                 before == SubSeq(text, 1, x - 1)
                 a == lexInsideAction(text,
                          IF leftTrim THEN after + 2 ELSE after, <<>>)
                 rest == lex(SubSeq(text, a.next, Len(text)), a.trim)
             IN  IF a.err # "" THEN [err |-> a.err, items |-> <<>>]
                 ELSE IF rest.err # "" THEN rest
                 ELSE [err   |-> "",
                       items |-> textItem(IF leftTrim THEN TrimRight(before)
                                          ELSE before)
                                 \o << [typ |-> "action", val |-> a.toks] >>
                                 \o rest.items]
\* Faulty variant of Unquote: the text between the quotes, as it is.
UnquoteAsIs(s) == [ok |-> TRUE, text |-> s]

\* strconv.Unquote of the inside of a double-quoted string constant: the
\* escapes \a \b \f \n \r \t \v \\ \" stand for one byte each, any other
\* character after a backslash is a syntax error.  (The numeric escapes are
\* not in the model: no template of the model has one.)
RECURSIVE Unquote(_)
Unquote(s) ==
    LET escapes == [c \in {"a", "b", "f", "n", "r", "t", "v", "\\", "\""} |->
                       CASE c = "a" -> "x07"
                         [] c = "b" -> "x08"
                         [] c = "f" -> "x0C"
                         [] c = "n" -> "\n"
                         [] c = "r" -> "\r"
                         [] c = "t" -> "\t"
                         [] c = "v" -> "x0B"
                         [] OTHER -> c]
    IN  IF s = <<>> THEN [ok |-> TRUE, text |-> <<>>]
        ELSE IF s[1] # "\\"
             THEN LET rest == Unquote(Tail(s))
                  IN  [rest EXCEPT !.text = <<s[1]>> \o @]
        ELSE IF Len(s) < 2 \/ s[2] \notin DOMAIN escapes
             THEN [ok |-> FALSE, text |-> <<>>]
        ELSE LET rest == Unquote(SubSeq(s, 3, Len(s)))
             IN  [rest EXCEPT !.text = <<escapes[s[2]]>> \o @]

\* The functions templates can call: main.go:53 adds sprig.FuncMap() to the
\* builtins of text/template.  Of them the model has uuidv4 of sprig, a
\* function of no argument whose result is drawn from a random source.
Functions == { <<"u", "u", "i", "d", "v", "4">> }

\* parse.go: operand and term, on one token.  declared are the variables in
\* scope.
operand(tok, declared) ==
    LET mk(k, name, names, text) ==
            [err |-> "", k |-> k, name |-> name, names |-> names,
             text |-> text]
        failed(e) ==
            [err |-> e, k |-> "", name |-> <<>>, names |-> <<>>,
             text |-> <<>>]
        parts == Split(tok.val, <<".">>)
    IN  IF tok.typ = "rawstring" THEN mk("string", <<>>, <<>>, tok.val)
        ELSE IF tok.typ = "string"
             THEN IF Unquote(tok.val).ok
                  THEN mk("string", <<>>, <<>>, Unquote(tok.val).text)
                  ELSE failed("invalid syntax")
        ELSE IF tok.typ = "char" THEN failed("unexpected token in operand")
        ELSE IF tok.val = <<".">> THEN mk("dot", <<>>, <<>>, <<>>)
        ELSE IF \E k \in 2..Len(parts) : parts[k] = <<>>
             THEN failed("bad field")
        ELSE IF tok.val[1] = "."
             THEN mk("field", <<>>, Tail(parts), <<>>)
        ELSE IF tok.val[1] = "$"
             THEN IF parts[1] \in declared
                  THEN mk("variable", parts[1], Tail(parts), <<>>)
                  ELSE failed("undefined variable")
        ELSE IF Len(parts) = 1 /\ tok.val \in Functions
             THEN mk("identifier", tok.val, <<>>, <<>>)
        ELSE failed("function not defined")

\* parse.go: pipeline, on the tokens of an action after its keyword: the
\* variables it declares ("$v :=" or "$k, $v :=") and its command, the
\* operands in order.
pipeline(toks, declared) ==
    LET isVar(k) == /\ k <= Len(toks)
                    /\ toks[k].typ = "word"
                    /\ toks[k].val[1] = "$"
                    /\ \A j \in 1..Len(toks[k].val) : toks[k].val[j] # "."
        isChar(k, c) == k <= Len(toks) /\ toks[k].typ = "char"
                        /\ toks[k].val = c
        decl == IF isVar(1) /\ isChar(2, <<":", "=">>)
                THEN << toks[1].val >>
                ELSE IF isVar(1) /\ isChar(2, <<",">>) /\ isVar(3)
                        /\ isChar(4, <<":", "=">>)
                THEN << toks[1].val, toks[3].val >>
                ELSE <<>>
        from == IF decl = <<>> THEN 1 ELSE 2 * Len(decl) + 1
        command(cmd) ==
            LET bad == {k \in DOMAIN cmd : cmd[k].err # ""}
            IN  IF Len(toks) < from
                THEN [err |-> "missing value for command", decl |-> <<>>,
                      cmd |-> <<>>]
                ELSE IF bad # {}
                THEN [err |-> cmd[Min(bad)].err, decl |-> <<>>, cmd |-> <<>>]
                ELSE [err |-> "", decl |-> decl, cmd |-> cmd]
    IN  command([k \in 1..(Len(toks) - from + 1) |->
                    operand(toks[from + k - 1], declared)])

\* parse.go: itemList, parseControl, action, textOrAction.  The nodes of the
\* items from p on up to the end of the list, which is the end of the
\* template (stop = "eof") or an {[else]} or {[end]}.
RECURSIVE itemList(_, _, _)
itemList(items, p, declared) ==
    LET failed(e) == [err |-> e, list |-> <<>>, next |-> p, stop |-> ""]
        node(n, text, pipe, list, elseList) ==
            [n |-> n, text |-> text, decl |-> pipe.decl, cmd |-> pipe.cmd,
             list |-> list, elseList |-> elseList]
        noPipe == [err |-> "", decl |-> <<>>, cmd |-> <<>>]
        KwIf == <<"i", "f">>
        KwElse == <<"e", "l", "s", "e">>
        KwEnd == <<"e", "n", "d">>
        KwRange == <<"r", "a", "n", "g", "e">>
        toks == items[p].val
        kw == IF toks # <<>> /\ toks[1].typ = "word" THEN toks[1].val ELSE <<>>
        control(pipe) ==
            LET body == itemList(items, p + 1, declared \cup Range(pipe.decl))
                other == IF body.stop = "else"
                         THEN itemList(items, body.next, declared)
                         ELSE [body EXCEPT !.list = <<>>]
                rest == itemList(items, other.next, declared)
            IN  IF pipe.err # "" THEN failed(pipe.err)
                ELSE IF kw = KwIf /\ Len(pipe.decl) > 1
                THEN failed("too many declarations in if")
                ELSE IF body.err # "" THEN failed(body.err)
                ELSE IF body.stop = "eof" THEN failed("unexpected EOF")
                ELSE IF other.err # "" THEN failed(other.err)
                ELSE IF other.stop # "end" THEN failed("expected end")
                ELSE IF rest.err # "" THEN rest
                ELSE [rest EXCEPT !.list =
                         << node(IF kw = KwIf THEN "if" ELSE "range",
                                 <<>>, pipe, body.list, other.list) >>
                         \o @]
        action(pipe) ==
            LET rest == itemList(items, p + 1, declared \cup Range(pipe.decl))
            IN  IF pipe.err # "" THEN failed(pipe.err)
                ELSE IF Len(pipe.decl) > 1
                THEN failed("too many declarations in command")
                ELSE IF rest.err # "" THEN rest
                ELSE [rest EXCEPT !.list =
                         << node("action", <<>>, pipe, <<>>, <<>>) >> \o @]
    IN  IF p > Len(items)
        THEN [err |-> "", list |-> <<>>, next |-> p, stop |-> "eof"]
        ELSE IF items[p].typ = "text"
        THEN LET rest == itemList(items, p + 1, declared)
             IN  IF rest.err # "" THEN rest
                 ELSE [rest EXCEPT !.list =
                          << node("text", items[p].val, noPipe, <<>>, <<>>) >>
                          \o @]
        ELSE IF toks = <<>> THEN failed("missing value for command")
        ELSE IF kw \in {KwEnd, KwElse}
        THEN IF Len(toks) > 1 THEN failed("unexpected token")
             ELSE [err |-> "", list |-> <<>>, next |-> p + 1,
                   stop |-> IF kw = KwEnd THEN "end" ELSE "else"]
        ELSE IF kw \in {KwIf, KwRange}
        THEN control(pipeline(Tail(toks), declared))
        ELSE action(pipeline(toks, declared))

\* Template.Parse (main.go:53): the tree of the text, or the error.
ParseTemplate(text) ==
    LET parsed(t) ==
            IF t.err # "" THEN [err |-> t.err, tree |-> <<>>]
            ELSE IF t.stop # "eof"
            THEN [err |-> "unexpected end", tree |-> <<>>]
            ELSE [err |-> "", tree |-> t.list]
        lexed(l) ==
            IF l.err # "" THEN [err |-> l.err, tree |-> <<>>]
            ELSE parsed(itemList(l.items, 1, { <<"$">> }))
    IN  lexed(lex(text, FALSE))

(***************************************************************************)
(* The execution of a template (text/template/exec.go) on a context         *)
(***************************************************************************)
\* The values a template of the model computes, each with its Go type.
Value(t, s, m, l) == [t |-> t, s |-> s, m |-> m, l |-> l]

ExtendedString(s) == Value("ExtendedString", s, EmptyMap, <<>>)

GoString(s) == Value("string", s, EmptyMap, <<>>)

\* utils.go:118, type TemplateData map[string]template.ExtendedString.
TemplateData(m) == Value("TemplateData", <<>>, m, <<>>)

\* []ExtendedString, what Split and Fields return.
Slice(l) == Value("[]ExtendedString", <<>>, EmptyMap, l)

\* The methods of the types, each with the types of its parameters
\* (main.go:136-198, utils.go:122).
Methods(t) ==
    IF t = "ExtendedString"
    THEN [n \in { <<"S", "p", "l", "i", "t">>,
                  <<"L", "o", "a", "d", "F", "i", "l", "e">>,
                  <<"L", "o", "a", "d", "R", "e", "l", "a", "t", "i", "v", "e",
                    "F", "i", "l", "e">>,
                  <<"L", "o", "a", "d", "R", "e", "l", "a", "t", "i", "v", "e",
                    "F", "i", "l", "e", "E", "S">>,
                  <<"F", "i", "e", "l", "d", "s">>,
                  <<"T", "o", "J", "S", "O", "N">>,
                  <<"T", "o", "B", "a", "s", "e", "6", "4">> } |->
             IF n = <<"S", "p", "l", "i", "t">> \/ Len(n) = 16
             THEN <<"string">>
             ELSE IF Len(n) = 18 THEN <<"ExtendedString">>
             ELSE <<>>]
    ELSE IF t = "TemplateData"
    THEN [n \in { <<"F", "i", "l", "t", "e", "r">> } |-> <<"string">>]
    ELSE [n \in {} |-> <<>>]

\* The outcome of an evaluation: the error, the value and what the methods
\* called have written to standard error.
Evaluated(v, diag) == [err |-> "", val |-> v, diag |-> diag]

EvalError(e, diag) == [err |-> e, val |-> GoString(<<>>), diag |-> diag]

\* exec.go: evalCall, once the arguments are evaluated: the method runs.
call(receiver, name, a) ==
    LET n == Len(name)
        filtered(r) == Evaluated(TemplateData(r.rv), r.diag)
        text(r) == Evaluated(ExtendedString(r.ret), r.diag)
    IN  IF receiver.t = "TemplateData" THEN filtered(Filter(receiver.m, a.s))
        ELSE IF name[1] = "S"
        THEN Evaluated(Slice(Split(receiver.s, a.s)), <<>>)
        ELSE IF name[1] = "F"
        THEN Evaluated(Slice(Fields(receiver.s)), <<>>)
        ELSE IF n = 8 /\ name[1] = "L" THEN text(LoadFile(receiver.s))
        ELSE IF n = 16 THEN text(LoadRelativeFile(receiver.s, a.s))
        ELSE IF n = 18 THEN text(LoadRelativeFileES(receiver.s, a.s))
        ELSE IF n = 6 THEN text(ToJSON(receiver.s))
        ELSE Evaluated(ExtendedString(ToBase64(receiver.s)), <<>>)

\* exec.go: evalField, of a field that has no arguments.  A method of the
\* receiver comes first; then, on a map, the name is a key, and under
\* missingkey=zero (main.go:52) a key the map has not gives the zero value
\* of the element type.
evalFieldAlone(receiver, fieldName) ==
    LET methods == Methods(receiver.t)
    IN  IF fieldName \in DOMAIN methods
        THEN IF methods[fieldName] # <<>>
             THEN EvalError("wrong number of args", <<>>)
             ELSE call(receiver, fieldName, GoString(<<>>))
        ELSE IF receiver.t = "TemplateData"
        THEN IF fieldName \in DOMAIN receiver.m
             THEN Evaluated(ExtendedString(receiver.m[fieldName]), <<>>)
             ELSE Evaluated(ExtendedString(<<>>), <<>>)
        ELSE EvalError("can't evaluate field", <<>>)

\* exec.go: evalFieldChain, of fields that have no arguments.
RECURSIVE evalFieldChain(_, _)
evalFieldChain(receiver, names) ==
    LET then(r) ==
            LET rest == evalFieldChain(r.val, Tail(names))
            IN  IF r.err # "" THEN r
                ELSE [rest EXCEPT !.diag = r.diag \o @]
    IN  IF names = <<>> THEN Evaluated(receiver, <<>>)
        ELSE then(evalFieldAlone(receiver, names[1]))

\* exec.go: evalArg.  A string constant takes the type of the parameter; the
\* value of a field, a variable or a function must be of that type.
evalArg(argNode, typ, st) ==
    LET checked(v) ==
            IF v.err # "" THEN v
            ELSE IF v.val.t # typ THEN EvalError("wrong type for value", v.diag)
            ELSE v
    IN  IF argNode.k = "string"
        THEN Evaluated(Value(typ, argNode.text, EmptyMap, <<>>), <<>>)
        ELSE IF argNode.k \in {"field", "variable"}
        THEN checked(evalFieldChain(IF argNode.k = "field" THEN st.dot
                                    ELSE st.vars[argNode.name],
                                    argNode.names))
        ELSE IF argNode.k = "dot" THEN checked(Evaluated(st.dot, <<>>))
        ELSE checked(Evaluated(GoString(st.rand), <<>>))

\* exec.go: evalField and evalCall, of a field with its arguments: the
\* number of arguments is checked, they are evaluated, the method runs.
evalField(receiver, fieldName, argNodes, st) ==
    LET methods == Methods(receiver.t)
        returned(a, c) == [c EXCEPT !.diag = a.diag \o @]
        called(a) ==
            IF a.err # "" THEN a
            ELSE returned(a, call(receiver, fieldName, a.val))
    IN  IF argNodes = <<>> THEN evalFieldAlone(receiver, fieldName)
        ELSE IF fieldName \in DOMAIN methods
        THEN IF Len(argNodes) # Len(methods[fieldName])
             THEN EvalError("wrong number of args", <<>>)
             ELSE called(evalArg(argNodes[1], methods[fieldName][1], st))
        ELSE IF receiver.t = "TemplateData"
        THEN EvalError("is not a method but has arguments", <<>>)
        ELSE EvalError("can't evaluate field", <<>>)

\* exec.go: evalCommand.  The first operand is what is evaluated, the others
\* are its arguments and go to the last field of it.  uuidv4 gives what the
\* random source gives this run.
evalCommand(cmd, st) ==
    LET first == cmd[1]
        argNodes == Tail(cmd)
        base == IF first.k = "field" THEN st.dot ELSE st.vars[first.name]
        n == Len(first.names)
        returned(r, last) == [last EXCEPT !.diag = r.diag \o @]
        then(r) ==
            IF r.err # "" THEN r
            ELSE returned(r, evalField(r.val, first.names[n], argNodes, st))
    IN  IF first.k \in {"field", "variable"} /\ n > 0
        THEN then(evalFieldChain(base, SubSeq(first.names, 1, n - 1)))
        ELSE IF argNodes # <<>>
        THEN IF first.k = "identifier"
             THEN EvalError("wrong number of args", <<>>)
             ELSE EvalError("can't give argument to non-function", <<>>)
        ELSE IF first.k = "variable" THEN Evaluated(base, <<>>)
        ELSE IF first.k = "identifier" THEN Evaluated(GoString(st.rand), <<>>)
        ELSE IF first.k = "dot" THEN Evaluated(st.dot, <<>>)
        ELSE Evaluated(GoString(first.text), <<>>)

\* The order of strings, byte by byte.
Less(a, b) ==
    \E k \in 1..Len(b) :
        /\ k - 1 <= Len(a)
        /\ \A j \in 1..(k - 1) : a[j] = b[j]
        /\ k = Len(a) + 1 \/ Ord(a[k]) < Ord(b[k])

\* Faulty variant of SortedKeys: in decreasing order.
RECURSIVE SortedKeysDown(_)
SortedKeysDown(S) ==
    IF S = {} THEN <<>>
    ELSE LET most == CHOOSE x \in S : \A y \in S \ {x} : Less(y, x)
         IN  <<most>> \o SortedKeysDown(S \ {most})

\* fmtsort.Sort on the keys of a map: in increasing order.
RECURSIVE SortedKeys(_)
SortedKeys(S) ==
    IF S = {} THEN <<>>
    ELSE LET least == CHOOSE x \in S : \A y \in S \ {x} : Less(x, y)
         IN  <<least>> \o SortedKeys(S \ {least})

\* strconv.Itoa.
RECURSIVE Itoa(_)
Itoa(n) ==
    LET digits == <<"0", "1", "2", "3", "4", "5", "6", "7", "8", "9">>
    IN  IF n < 10 THEN << digits[n + 1] >>
        ELSE Itoa(n \div 10) \o << digits[(n % 10) + 1] >>

\* exec.go: printValue, fmt.Fprint of the value: a string as its bytes, a
\* map as map[k:v k:v] with the keys in order, a slice as [a b].
printValue(v) ==
    IF v.t = "TemplateData"
    THEN LET keys == SortedKeys(DOMAIN v.m)
         IN  <<"m", "a", "p", "[">>
             \o Join([k \in 1..Len(keys) |-> keys[k] \o <<":">> \o v.m[keys[k]]],
                     <<" ">>)
             \o <<"]">>
    ELSE IF v.t = "[]ExtendedString"
    THEN <<"[">> \o Join(v.l, <<" ">>) \o <<"]">>
    ELSE v.s

\* exec.go: isTrue: a string, a map and a slice are true unless empty.
isTrue(v) ==
    IF v.t = "TemplateData" THEN DOMAIN v.m # {}
    ELSE IF v.t = "[]ExtendedString" THEN v.l # <<>>
    ELSE v.s # <<>>

\* exec.go: walkRange: the keys (or indices) and the elements range goes
\* through, a map by its keys in increasing order.
rangeOver(v) ==
    IF v.t = "TemplateData"
    THEN LET keys == SortedKeys(DOMAIN v.m)
         IN  [k \in 1..Len(keys) |->
                 [key |-> GoString(keys[k]), elem |-> ExtendedString(v.m[keys[k]])]]
    ELSE [k \in 1..Len(v.l) |->
             [key |-> Value("int", Itoa(k - 1), EmptyMap, <<>>),
              elem |-> ExtendedString(v.l[k])]]

\* exec.go: setVar / push of the variables a pipeline declares.
Declare(st, decl, vals) ==
    [st EXCEPT !.vars = [x \in DOMAIN st.vars \cup Range(decl) |->
        IF \E k \in DOMAIN decl : decl[k] = x
        THEN vals[CHOOSE k \in DOMAIN decl : decl[k] = x]
        ELSE st.vars[x]]]

\* exec.go: walk, walkIfOrWith, walkRange, on the nodes of list from k on.
\* out is what is written to the writer: all the output before an error is
\* written.  Of a range node, from is the element the iteration is at.
RECURSIVE walk(_, _, _, _)
walk(list, k, from, st) ==
    LET node == list[k]
        done(out, diag) == [err |-> "", out |-> out, diag |-> diag]
        then(r, next) ==
            IF r.err # "" THEN r
            ELSE [next EXCEPT !.out = r.out \o @, !.diag = r.diag \o @]
        inner(body, scope) ==
            IF body = <<>> THEN done(<<>>, <<>>) ELSE walk(body, 1, 1, scope)
        iteration(v, e) ==
            then(then(done(<<>>, IF from = 1 THEN v.diag ELSE <<>>),
                      inner(node.list,
                            IF node.decl = <<>> THEN [st EXCEPT !.dot = e.elem]
                            ELSE IF Len(node.decl) = 1
                            THEN Declare(st, node.decl, <<e.elem>>)
                            ELSE Declare(st, node.decl, <<e.key, e.elem>>))),
                 walk(list, k, from + 1, st))
        range(v, elems) ==
            IF elems = <<>>
            THEN then(then(done(<<>>, v.diag), inner(node.elseList, st)),
                      walk(list, k + 1, 1, st))
            ELSE IF from > Len(elems) THEN walk(list, k + 1, 1, st)
            ELSE iteration(v, elems[from])
        evaluated(v) ==
            IF v.err # "" THEN [err |-> v.err, out |-> <<>>, diag |-> v.diag]
            ELSE IF node.n = "action"
            THEN IF node.decl # <<>>
                 THEN then(done(<<>>, v.diag),
                           walk(list, k + 1, 1,
                                Declare(st, node.decl, <<v.val>>)))
                 ELSE then(done(printValue(v.val), v.diag),
                           walk(list, k + 1, 1, st))
            ELSE IF node.n = "if"
            THEN then(then(done(<<>>, v.diag),
                           IF isTrue(v.val)
                           THEN inner(node.list,
                                      Declare(st, node.decl, <<v.val>>))
                           ELSE inner(node.elseList, st)),
                      walk(list, k + 1, 1, st))
            ELSE IF v.val.t \notin {"TemplateData", "[]ExtendedString"}
            THEN [err |-> "range can't iterate over", out |-> <<>>,
                  diag |-> v.diag]
            ELSE range(v, rangeOver(v.val))
    IN  IF k > Len(list) THEN done(<<>>, <<>>)
        ELSE IF node.n = "text"
        THEN then(done(node.text, <<>>), walk(list, k + 1, 1, st))
        ELSE evaluated(evalCommand(node.cmd, st))

\* Template.Execute (main.go:91) of a parsed template on the context.
Execute(tree, data, rand) ==
    walk(tree, 1, 1,
         [dot  |-> TemplateData(data),
          vars |-> [x \in { <<"$">> } |-> TemplateData(data)],
          rand |-> rand])

(***************************************************************************)
(* The template texts of the runs                                          *)
(***************************************************************************)
\* The template of the first example: text around one reference:
\*   Hello {[.NAME]}!
TmplHello ==
    <<"H", "e", "l", "l", "o", " ", "{", "[", ".", "N", "A", "M", "E", "]",
      "}", "!">>

\* Text that holds the delimiters of other tools, and a closing delimiter alone:
\*   {{ .NAME }}]} {[.NAME]}
TmplBraces ==
    <<"{", "{", " ", ".", "N", "A", "M", "E", " ", "}", "}", "]", "}", " ",
      "{", "[", ".", "N", "A", "M", "E", "]", "}">>

\* A reference with both trim markers, as the sample template has them:
\*   a {[- .NAME -]} b
TmplTrim ==
    <<"a", " ", "{", "[", "-", " ", ".", "N", "A", "M", "E", " ", "-", "]",
      "}", " ", "b">>

\* The files of the variables FILE_<n>, the pattern written with \d in a
\* double-quoted string constant:
\*   {[range $f := .Filter "^FILE_\d+$"]}{[$f.LoadFile]}{[end]}
TmplFilesEscaped ==
    <<"{", "[", "r", "a", "n", "g", "e", " ", "$", "f", " ", ":", "=", " ",
      ".", "F", "i", "l", "t", "e", "r", " ", "\"", "^", "F", "I", "L", "E",
      "_", "\\", "d", "+", "$", "\"", "]", "}", "{", "[", "$", "f", ".",
      "L", "o", "a", "d", "F", "i", "l", "e", "]", "}", "{", "[", "e", "n",
      "d", "]", "}">>

\* The same with the backslash doubled, as the sample template writes its
\* patterns (part_002:16):
\*   {[range $f := .Filter "^FILE_\\d+$"]}{[$f.LoadFile]}{[end]}
TmplFiles ==
    <<"{", "[", "r", "a", "n", "g", "e", " ", "$", "f", " ", ":", "=", " ",
      ".", "F", "i", "l", "t", "e", "r", " ", "\"", "^", "F", "I", "L", "E",
      "_", "\\", "\\", "d", "+", "$", "\"", "]", "}", "{", "[", "$", "f",
      ".", "L", "o", "a", "d", "F", "i", "l", "e", "]", "}", "{", "[", "e",
      "n", "d", "]", "}">>

\* The same with the pattern in a raw string constant:
\*   {[range $f := .Filter `^FILE_\d+$`]}{[$f.LoadFile]}{[end]}
TmplFilesRaw ==
    <<"{", "[", "r", "a", "n", "g", "e", " ", "$", "f", " ", ":", "=", " ",
      ".", "F", "i", "l", "t", "e", "r", " ", "x60", "^", "F", "I", "L",
      "E", "_", "\\", "d", "+", "$", "x60", "]", "}", "{", "[", "$", "f",
      ".", "L", "o", "a", "d", "F", "i", "l", "e", "]", "}", "{", "[", "e",
      "n", "d", "]", "}">>

\* References to a variable no environment of the model has:
\*   {[.MISSING]}|{[if .MISSING]}yes{[else]}no{[end]}|{[.MISSING.ToBase64]}
TmplMissing ==
    <<"{", "[", ".", "M", "I", "S", "S", "I", "N", "G", "]", "}", "|", "{",
      "[", "i", "f", " ", ".", "M", "I", "S", "S", "I", "N", "G", "]", "}",
      "y", "e", "s", "{", "[", "e", "l", "s", "e", "]", "}", "n", "o", "{",
      "[", "e", "n", "d", "]", "}", "|", "{", "[", ".", "M", "I", "S", "S",
      "I", "N", "G", ".", "T", "o", "B", "a", "s", "e", "6", "4", "]", "}">>

\* A reference to the variable named Filter:
\*   {[.Filter]}
TmplFilter ==
    <<"{", "[", ".", "F", "i", "l", "t", "e", "r", "]", "}">>

\* A range over the whole context:
\*   {[range $k, $v := .]}{[$k]}={[$v]};{[end]}
TmplRange ==
    <<"{", "[", "r", "a", "n", "g", "e", " ", "$", "k", ",", " ", "$", "v",
      " ", ":", "=", " ", ".", "]", "}", "{", "[", "$", "k", "]", "}", "=",
      "{", "[", "$", "v", "]", "}", ";", "{", "[", "e", "n", "d", "]", "}">>

\* A call of a function of sprig:
\*   id {[uuidv4]}
TmplUuid ==
    <<"i", "d", " ", "{", "[", "u", "u", "i", "d", "v", "4", "]", "}">>

\* An action that is not closed: Parse fails:
\*   Hello {[.NAME
TmplUnclosed ==
    <<"H", "e", "l", "l", "o", " ", "{", "[", ".", "N", "A", "M", "E">>

\* A field of a string: Execute fails, after the text before it is written:
\*   ab{[.NAME.Nope]}
TmplNoField ==
    <<"a", "b", "{", "[", ".", "N", "A", "M", "E", ".", "N", "o", "p", "e",
      "]", "}">>

Templates ==
    {TmplHello, TmplBraces, TmplTrim, TmplFilesEscaped,
     TmplFiles, TmplFilesRaw, TmplMissing, TmplFilter,
     TmplRange, TmplUuid, TmplUnclosed, TmplNoField}
(***************************************************************************)
(* The whole run: main and checkOptions (main.go:24-58, 73-98)             *)
(***************************************************************************)
KeyNAME == <<"N", "A", "M", "E">>

KeyFILE_1 == <<"F", "I", "L", "E", "_", "1">>

KeyFilter == <<"F", "i", "l", "t", "e", "r">>

World == <<"w", "o", "r", "l", "d">>

\* The environments of the runs: those of the two examples, one with a
\* variable named Filter (in both orders), one with an entry that has no
\* '=', and none.
MainEnvirons ==
    { << Entry(KeyNAME, World) >>,
      << Entry(KeyFILE_1, NameATxt) >>,
      << Entry(KeyFilter, <<"x">>), Entry(KeyNAME, World) >>,
      << Entry(KeyNAME, World), Entry(KeyFilter, <<"x">>) >>,
      << Entry(KeyNAME, World), KeyFILE_1 >>,
      <<>> }

\* The files -o names in the runs of the model: out exists before the run
\* and holds OldContent, new does not exist.
NameOut == <<"o", "u", "t">>

NameNew == <<"n", "e", "w">>

OldContent == <<"O", "L", "D">>

\* The file -i names: the template file, whose content is source.
NameTemplate == <<"t", ".", "t", "p", "l">>

\* The values of -o: none (standard output), a file that exists, a file that
\* does not, a directory.
OutputFiles == { <<>>, NameOut, NameNew, NameConf }

\* The values of -i: none (standard input), the template file, a file that
\* does not exist, a directory.
InputFiles == { <<>>, NameTemplate, NameMissing, NameConf }

\* What the random source of uuidv4 may give.
Randoms == { <<"1">>, <<"2">> }

NoPrevRun == [done |-> FALSE, out |-> <<>>, code |-> 0]

InitMain ==
    /\ environ \in MainEnvirons
    /\ pc = "checkOptions"
    /\ i = 1
    /\ envMap = EmptyMap
    /\ prevMap = NoRun
    /\ op = "none"
    /\ pattern = <<>>
    /\ rv = EmptyMap
    /\ stderr = <<>>
    /\ es = <<>>
    /\ arg = <<>>
    /\ ret = <<>>
    /\ reads = <<>>
    /\ cf \in [OutputFile : OutputFiles, InputFile : InputFiles]
    /\ source \in Templates
    /\ outFile = IF cf.OutputFile = NameOut
                 THEN [exists |-> TRUE, data |-> OldContent]
                 ELSE [exists |-> FALSE, data |-> <<>>]
    /\ stdout = <<>>
    /\ handles = {}
    /\ tmplt = <<>>
    /\ prevRun = NoPrevRun
    /\ LibAtRest

\* main.go:86-89: checkOptions has returned an error.
ErrorInOptions(cause) == [msg |-> "Error in options", cause |-> cause]

\* main.go:27-35: with -o the output file is created, or truncated if it
\* exists (os.Create); a directory cannot be.
CreateOutput ==
    /\ pc = "checkOptions"
    /\ IF cf.OutputFile = <<>>
       THEN /\ pc' = "open"
            /\ UNCHANGED <<outFile, handles, stderr>>
       ELSE IF ReadFile(cf.OutputFile).err = "EISDIR"
       THEN /\ pc' = "exit1"
            /\ stderr' = Append(stderr, ErrorInOptions("cannot open output file"))
            /\ UNCHANGED <<outFile, handles>>
       ELSE /\ pc' = "open"
            /\ outFile' = [exists |-> TRUE, data |-> <<>>]
            /\ handles' = handles \cup {"writer"}
            /\ UNCHANGED stderr
    /\ UNCHANGED <<environ, envMap, callVars, cf, source, stdout, tmplt,
                   prevRun, libVars>>

\* main.go:36-43: with -i the input file is opened (os.Open).  A directory
\* is opened like a file; it is the read that fails on it.
OpenInput ==
    /\ pc = "open"
    /\ IF cf.InputFile = <<>>
       THEN /\ pc' = "read"
            /\ UNCHANGED <<handles, stderr>>
       ELSE IF /\ cf.InputFile # NameTemplate
               /\ ReadFile(cf.InputFile).err \in {"ENOENT", "EACCES", "ENOTDIR"}
       THEN /\ pc' = "exit1"
            /\ stderr' = Append(stderr, ErrorInOptions("cannot open input file"))
            /\ UNCHANGED handles
       ELSE /\ pc' = "read"
            /\ handles' = handles \cup {"reader"}
            /\ UNCHANGED stderr
    /\ UNCHANGED <<environ, envMap, callVars, cf, source, outFile, stdout,
                   tmplt, prevRun, libVars>>

\* main.go:44-57: the template text is read from the reader and parsed.
ReadAndParse ==
    /\ pc = "read"
    /\ LET fromFile == cf.InputFile \notin { <<>>, NameTemplate }
           parse(parsed) ==
               IF parsed.err # ""
               THEN /\ pc' = "exit1"
                    /\ stderr' = Append(stderr, ErrorInOptions(parsed.err))
                    /\ UNCHANGED tmplt
               ELSE /\ pc' = "getEnvMap"
                    /\ tmplt' = parsed.tree
                    /\ UNCHANGED stderr
           readAll(read) ==
               IF read.err # ""
               THEN /\ pc' = "exit1"
                    /\ stderr' = Append(stderr, ErrorInOptions(read.err))
                    /\ UNCHANGED tmplt
               ELSE parse(ParseTemplate(read.data))
       IN  readAll(IF fromFile THEN ReadFile(cf.InputFile)
                   ELSE [err |-> "", data |-> source])
    /\ UNCHANGED <<environ, envMap, callVars, cf, source, outFile, stdout,
                   handles, prevRun, libVars>>

\* main.go:91: getEnvMap has panicked.  The Go runtime ends a process whose
\* panic nothing recovers with exit status 2.
Crash ==
    /\ pc = "panic"
    /\ pc' = "exit2"
    /\ UNCHANGED <<environ, envMap, stderr, callVars, mainVars, libVars>>

\* main.go:92-93: Execute has returned an error.
ErrorGeneratingFile(cause) == [msg |-> "Error generating file", cause |-> cause]

\* main.go:91-96: the template is executed on the context getEnvMap has
\* returned, its output going to the output file or to standard output.
ExecuteTemplate ==
    /\ pc = "done"
    /\ LET executed(r) ==
               /\ IF cf.OutputFile = <<>>
                  THEN stdout' = stdout \o r.out /\ UNCHANGED outFile
                  ELSE outFile' = [outFile EXCEPT !.data = @ \o r.out]
                       /\ UNCHANGED stdout
               /\ IF r.err = ""
                  THEN pc' = "exit0" /\ stderr' = stderr \o r.diag
                  ELSE /\ pc' = "exit1"
                       /\ stderr' = stderr \o r.diag
                                    \o << ErrorGeneratingFile(r.err) >>
       IN  \E rand \in Randoms : executed(Execute(tmplt, envMap, rand))
    /\ UNCHANGED <<environ, envMap, callVars, cf, source, handles, tmplt,
                   prevRun, libVars>>

\* The exit status of a run that has ended.
ExitCode == IF pc = "exit0" THEN 0 ELSE IF pc = "exit1" THEN 1 ELSE 2

\* What a run has written to its output.
Output == IF cf.OutputFile = <<>> THEN stdout ELSE outFile.data

\* The process has ended: the program is run once more with the same
\* command line, environment, template text and files.
RunMainAgain ==
    /\ pc \in {"exit0", "exit1", "exit2"}
    /\ ~prevRun.done
    /\ prevRun' = [done |-> TRUE, out |-> Output, code |-> ExitCode]
    /\ pc' = "checkOptions"
    /\ envMap' = EmptyMap
    /\ stderr' = <<>>
    /\ stdout' = <<>>
    /\ handles' = {}
    /\ tmplt' = <<>>
    /\ UNCHANGED <<environ, callVars, cf, source, outFile, libVars>>

NextMain ==
    \/ CreateOutput
    \/ OpenInput
    \/ ReadAndParse
    \/ EnterGetEnvMap
    \/ LoopBody
    \/ ReturnEnvMap
    \/ Crash
    \/ ExecuteTemplate
    \/ RunMainAgain

SpecMain == InitMain /\ [][NextMain]_vars

(***************************************************************************)
(* Properties of the whole run                                             *)
(***************************************************************************)
\* The process has ended.
Ended == pc \in {"exit0", "exit1", "exit2"}

\* main has reported a fatal error of the step named.
Reported(msg) == \E k \in 1..Len(stderr) : stderr[k].msg = msg

\* C21: a run that has ended has exit code 1 when the output file could not
\* be created, the input not opened or read, the template not parsed or the
\* render failed, and exit code 0 when none of these happened; there is no
\* other exit code.
C21_ExitCodes ==
    Ended =>
        ExitCode = IF Reported("Error in options")
                      \/ Reported("Error generating file")
                   THEN 1 ELSE 0

\* C29: when the process exits, every file handle checkOptions has opened
\* is closed.
C29_HandlesReleased == Ended => handles = {}

\* The run has failed in checkOptions after the output was opened: on the
\* input file or on the template.
FailedOnInput ==
    /\ pc = "exit1"
    /\ \E k \in 1..Len(stderr) :
           /\ stderr[k].msg = "Error in options"
           /\ stderr[k].cause # "cannot open output file"

\* C30: a first run with -o on the existing file that fails before the
\* render leaves the file with the content it had.
C30_OutputUntouched ==
    (~prevRun.done /\ cf.OutputFile = NameOut /\ FailedOnInput) =>
        outFile = [exists |-> TRUE, data |-> OldContent]

\* The name of a variable no environment of the model has.
KeyMISSING == <<"M", "I", "S", "S", "I", "N", "G">>

\* The names the references of the properties use.
ReferenceNames == {KeyNAME, KeyFILE_1, KeyFilter, KeyMISSING}

\* The template that is one reference to the variable: {[.NAME]}.
Reference(name) == LeftDelim \o <<".">> \o name \o RightDelim

\* The template that tests the variable: {[if .NAME]}T{[else]}F{[end]}.
Conditional(name) ==
    LeftDelim \o <<"i", "f", " ", ".">> \o name \o RightDelim \o <<"T">>
    \o LeftDelim \o <<"e", "l", "s", "e">> \o RightDelim \o <<"F">>
    \o LeftDelim \o <<"e", "n", "d">> \o RightDelim

\* What the template text renders on the context of the state: the error,
\* the output and the diagnostics.
Render(text) ==
    LET executed(p) ==
            IF p.err # "" THEN [err |-> p.err, out |-> <<>>, diag |-> <<>>]
            ELSE Execute(p.tree, envMap, <<"1">>)
    IN  executed(ParseTemplate(text))

Rendered(out) == [err |-> "", out |-> out, diag |-> <<>>]

\* C22: on the context getEnvMap has built, a reference to a name that is
\* not a key renders as empty text without an error, and is false in an if.
C22_MissingKey ==
    pc = "done" =>
        \A name \in ReferenceNames \ DOMAIN envMap :
            /\ Render(Reference(name)) = Rendered(<<>>)
            /\ Render(Conditional(name)) = Rendered(<<"F">>)

\* The text of an environment: what a range over it that writes key=value;
\* gives when it goes through the keys in increasing order.
Listing(keys) ==
    IF keys = {KeyFilter, KeyNAME}
    THEN KeyFilter \o <<"=", "x", ";">> \o KeyNAME \o <<"=">> \o World \o <<";">>
    ELSE IF keys = {KeyNAME} THEN KeyNAME \o <<"=">> \o World \o <<";">>
    ELSE IF keys = {KeyFILE_1} THEN KeyFILE_1 \o <<"=">> \o NameATxt \o <<";">>
    ELSE <<>>

\* The run has read its template and opened its output: what is left is the
\* context and the render.
TemplateRead ==
    /\ cf.InputFile \in { <<>>, NameTemplate }
    /\ cf.OutputFile # NameConf

\* The environment of the example with the file: FILE_1 is a.txt, and a.txt
\* of the working directory holds A.
FileExample == environ = << Entry(KeyFILE_1, NameATxt) >>

\* C23 as the claim has it: with the pattern written "^FILE_\d+$" the run
\* renders A and succeeds.
C23_AsClaimed ==
    (Ended /\ TemplateRead /\ FileExample /\ source = TmplFilesEscaped) =>
        pc = "exit0" /\ Output = <<"A">>

\* C23: with the environment FILE_1=a.txt and the template that ranges over
\* .Filter of the pattern ^FILE_\d+$ and loads each file, the pattern being
\* written with the backslash doubled or in a raw string constant, the run
\* renders A and succeeds; written "^FILE_\d+$" the template does not parse
\* and the run fails with exit code 1.
C23_FilterRange ==
    (Ended /\ TemplateRead /\ FileExample) =>
        /\ source \in {TmplFiles, TmplFilesRaw} =>
              pc = "exit0" /\ Output = <<"A">> /\ stderr = <<>>
        /\ source = TmplFilesEscaped =>
              pc = "exit1" /\ Output = <<>> /\ Reported("Error in options")

C23_Witness ==
    /\ pc = "exit0"
    /\ FileExample
    /\ source = TmplFiles
    /\ Output = <<"A">>
    /\ cf.OutputFile = NameNew
    /\ outFile.exists

\* The text of a template before its first action and after it.
Before(text) == SubSeq(text, 1, Index(text, LeftDelim) - 1)

After(text) ==
    LET from == Index(text, LeftDelim)
        rest == SubSeq(text, from, Len(text))
    IN  SubSeq(rest, Index(rest, RightDelim) + Len(RightDelim), Len(rest))

\* The templates of one action, the reference .NAME.
OneReference == {TmplHello, TmplBraces, TmplTrim}

NameExample == environ = << Entry(KeyNAME, World) >>

\* C24 as the claim has it: the text outside the delimiters is in the
\* output byte for byte.
C24_AsClaimed ==
    (pc = "exit0" /\ NameExample /\ source \in OneReference) =>
        Output = Before(source) \o World \o After(source)

\* White space at the end (at the start) of a text.
RECURSIVE WithoutTrailing(_)
WithoutTrailing(t) ==
    IF t # <<>> /\ t[Len(t)] \in {" ", "\t", "\r", "\n"}
    THEN WithoutTrailing(SubSeq(t, 1, Len(t) - 1))
    ELSE t

RECURSIVE WithoutLeading(_)
WithoutLeading(t) ==
    IF t # <<>> /\ t[1] \in {" ", "\t", "\r", "\n"}
    THEN WithoutLeading(Tail(t))
    ELSE t

\* C24: Hello {[.NAME]}! renders Hello world! for NAME=world, and the text
\* outside the delimiters ({{ }} sequences and a lone ]} too) is in the
\* output byte for byte, except the white space next to an action that has
\* a trim marker ({[- or -]}), which is left out.
C24_Substitution ==
    (Ended /\ TemplateRead /\ NameExample /\ source \in OneReference) =>
        /\ pc = "exit0"
        /\ source = TmplHello =>
              Output = <<"H", "e", "l", "l", "o", " ">> \o World \o <<"!">>
        /\ source # TmplTrim =>
              Output = Before(source) \o World \o After(source)
        /\ source = TmplTrim =>
              Output = WithoutTrailing(Before(source)) \o World
                       \o WithoutLeading(After(source))

C24_Witness ==
    /\ pc = "exit0"
    /\ NameExample
    /\ source = TmplTrim
    /\ Output = <<"a">> \o World \o <<"b">>

\* C25: on the context getEnvMap has built, a reference to a variable of
\* the environment renders the value of the variable, whatever its name.
C25_NoReservedName ==
    pc = "done" =>
        \A name \in DOMAIN envMap :
            Render(Reference(name)) = Rendered(envMap[name])

MaxFlags == 2

\* A field of the struct options points to: its type, its value and the
\* text of its tag `flag:"..."`, empty when it has none.
Field(typ, val, tag) == [typ |-> typ, val |-> val, tag |-> tag]

\* utils.go:31-39: parts = strings.Split(clFlag, ";") and
\* names = strings.Split(parts[0], ",").
TagNames(clFlag) == Split(Split(clFlag, <<";">>)[1], <<",">>)

\* utils.go:62-95: the types of the cases of the type switch a struct of
\* the runs has a field of (time.Duration, uint, float64, uint64 and int64
\* are bound the way int is).
KnownTypes == {"string", "bool", "int"}

\* utils.go:96-101: the types whose pointer implements flag.Value
\* (utils_test.go:11-26).
FlagValues == {"SomeValue"}

\* flag.Var: the name is added to the formal flags; a name that is there
\* already makes it panic ("flag redefined").
RECURSIVE defineNames(_, _, _, _)
defineNames(names, k, fieldName, fl) ==
    IF k > Len(names) THEN [panic |-> FALSE, formal |-> fl]
    ELSE IF names[k] \in DOMAIN fl THEN [panic |-> TRUE, formal |-> fl]
    ELSE defineNames(names, k + 1, fieldName, Put(fl, names[k], fieldName))

\* utils.go:21-106: the fields are visited in the order `order` (the order
\* of a Go map, any); a field without a flag tag is skipped; flag.XxxVar
\* stores the default, the value of the same field of defaults, in the
\* field; the pointer to a field of no known type is asserted to be a
\* flag.Value, which panics when it is not one.
RECURSIVE DefineCommandLineFlags(_, _, _, _, _)
DefineCommandLineFlags(opts, defaults, order, k, fl) ==
    IF k > Len(order) THEN [panic |-> FALSE, formal |-> fl, options |-> opts]
    ELSE IF opts[order[k]].tag = <<>>
    THEN DefineCommandLineFlags(opts, defaults, order, k + 1, fl)
    ELSE IF opts[order[k]].typ \notin KnownTypes \cup FlagValues
    THEN [panic |-> TRUE, formal |-> fl, options |-> opts]
    ELSE LET f == order[k]
             stored == IF opts[f].typ \in KnownTypes
                       THEN [opts EXCEPT ![f].val = defaults[f].val]
                       ELSE opts
             then(r) == IF r.panic
                        THEN [panic |-> TRUE, formal |-> r.formal, options |-> stored]
                        ELSE DefineCommandLineFlags(stored, defaults, order, k + 1, r.formal)
         IN  then(defineNames(TagNames(opts[f].tag), 1, f, fl))

\* The orders a Go map of the keys S is ranged over in.
RECURSIVE MapOrders(_)
MapOrders(S) ==
    IF S = {} THEN {<<>>}
    ELSE UNION {{<<x>> \o o : o \in MapOrders(S \ {x})} : x \in S}

\* strconv.ParseInt(s, 0, 64) on a text in decimal notation: an optional
\* sign and digits.
RECURSIVE Digits(_, _)
Digits(s, acc) ==
    IF s = <<>> THEN acc
    ELSE Digits(Tail(s), 10 * acc + (CHOOSE d \in 0..9 : Itoa(d) = <<Head(s)>>))

ParseInt(s) ==
    LET signed == s # <<>> /\ s[1] \in {"-", "+"}
        body == IF signed THEN Tail(s) ELSE s
    IN  IF body = <<>> \/ \E k \in 1..Len(body) : body[k] \notin Digit
        THEN [ok |-> FALSE, n |-> 0]
        ELSE [ok |-> TRUE,
              n |-> IF signed /\ s[1] = "-" THEN 0 - Digits(body, 0)
                    ELSE Digits(body, 0)]

\* strconv.ParseBool.
ParseBool(s) ==
    IF s \in {<<"1">>, <<"t">>, <<"T">>, <<"T", "R", "U", "E">>, <<"t", "r", "u", "e">>, <<"T", "r", "u", "e">>}
    THEN [ok |-> TRUE, b |-> TRUE]
    ELSE IF s \in {<<"0">>, <<"f">>, <<"F">>, <<"F", "A", "L", "S", "E">>, <<"f", "a", "l", "s", "e">>, <<"F", "a", "l", "s", "e">>}
    THEN [ok |-> TRUE, b |-> FALSE]
    ELSE [ok |-> FALSE, b |-> FALSE]

\* The Set of the flag.Value a flag of a field of type typ is: the values
\* of package flag for the known types, and (*SomeValue).Set
\* (utils_test.go:21-26), which takes p[0] and then panics on p[1] when
\* the text holds no "::".
Set(typ, old, text) ==
    IF typ = "string" THEN [ok |-> TRUE, panic |-> FALSE, val |-> text]
    ELSE IF typ = "int"
    THEN [ok |-> ParseInt(text).ok, panic |-> FALSE,
          val |-> IF ParseInt(text).ok THEN ParseInt(text).n ELSE old]
    ELSE IF typ = "bool"
    THEN [ok |-> ParseBool(text).ok, panic |-> FALSE,
          val |-> IF ParseBool(text).ok THEN ParseBool(text).b ELSE old]
    ELSE LET p == Split(text, <<":", ":">>)
         IN  IF Len(p) < 2
             THEN [ok |-> FALSE, panic |-> TRUE,
                   val |-> [AField |-> p[1], TwoField |-> old.TwoField]]
             ELSE [ok |-> TRUE, panic |-> FALSE,
                   val |-> [AField |-> p[1], TwoField |-> p[2]]]

\* The outcomes of FlagSet.parseOne.
Parsed(more, opts, as) ==
    [more |-> more, err |-> <<>>, panic |-> FALSE, options |-> opts, args |-> as]

failf(msg, opts, as) ==
    [more |-> FALSE, err |-> <<msg>>, panic |-> FALSE, options |-> opts, args |-> as]

\* flag.go, parseOne, from "flag, ok := f.formal[name]" on: the flag of the
\* name is looked up and its value set: a boolean flag takes the value
\* after '=' or true, any other the value after '=' or the next argument.
setFlag(fl, opts, name, hasValue, value, rest) ==
    IF name \notin DOMAIN fl
    THEN IF name \in {<<"h", "e", "l", "p">>, <<"h">>}
         THEN failf("flag: help requested", opts, rest)
         ELSE failf("flag provided but not defined", opts, rest)
    ELSE LET f == fl[name]
             store(r, as) ==
                 IF r.panic
                 THEN [more |-> FALSE, err |-> <<>>, panic |-> TRUE,
                       options |-> [opts EXCEPT ![f].val = r.val], args |-> as]
                 ELSE IF ~r.ok THEN failf("invalid value", opts, as)
                 ELSE Parsed(TRUE, [opts EXCEPT ![f].val = r.val], as)
         IN  IF opts[f].typ = "bool"
             THEN store(Set("bool", opts[f].val,
                            IF hasValue THEN value ELSE <<"t", "r", "u", "e">>), rest)
             ELSE IF hasValue
             THEN store(Set(opts[f].typ, opts[f].val, value), rest)
             ELSE IF rest # <<>>
             THEN store(Set(opts[f].typ, opts[f].val, Head(rest)), Tail(rest))
             ELSE failf("flag needs an argument", opts, rest)

\* flag.go, parseOne, up to the split of name and value: the first argument
\* is a flag when it starts with one or two '-'; "--" ends the flags.
parseOne(fl, opts, as) ==
    IF as = <<>> THEN Parsed(FALSE, opts, as)
    ELSE IF Len(Head(as)) < 2 \/ Head(as)[1] # "-" THEN Parsed(FALSE, opts, as)
    ELSE IF Head(as) = <<"-", "-">> THEN Parsed(FALSE, opts, Tail(as))
    ELSE LET s == Head(as)
             name == Suffix(s, IF s[2] = "-" THEN 3 ELSE 2)
             eq == {k \in 2..Len(name) : name[k] = "="}
         IN  IF name = <<>> \/ name[1] \in {"-", "="}
             THEN failf("bad flag syntax", opts, as)
             ELSE IF eq = {}
             THEN setFlag(fl, opts, name, FALSE, <<>>, Tail(as))
             ELSE setFlag(fl, opts, SubSeq(name, 1, Min(eq) - 1), TRUE,
                          Suffix(name, Min(eq) + 1), Tail(as))

\* The usage text of the tags of the runs.
Usage == <<";", "u">>

\* The struct of the runs, after testFlags1 and testFlags2
\* (utils_test.go:29-42): a field of each kind and one without a tag.
TestFlags(b) ==
    [StringVar |-> Field("string", <<"s", "o", "m", "e", "v", "a", "l", "u", "e">>, <<"s", "t", "r", "i", "n", "g", ",", "S">> \o Usage),
     BoolVar   |-> Field("bool", b, <<"b", "o", "o", "l", ",", "B">> \o Usage),
     IntVar    |-> Field("int", 123, <<"i", "n", "t", ",", "I">> \o Usage),
     Var       |-> Field("SomeValue", [AField |-> <<>>, TwoField |-> <<>>],
                         <<"s", "o", "m", "e", "V", "a", "l", "u", "e", ",", "s", "V">> \o Usage),
     Plain     |-> Field("string", <<"p", "l", "a", "i", "n">>, <<>>)]

\* A struct with a tagged field of a type that is none of the known ones
\* and implements no flag.Value.
RatioFlags ==
    [StringVar |-> Field("string", <<"s", "o", "m", "e", "v", "a", "l", "u", "e">>, <<"s", "t", "r", "i", "n", "g", ",", "S">> \o Usage),
     Ratio     |-> Field("float32", 0, <<"r", "a", "t", "i", "o", ",", "R">> \o Usage),
     IntVar    |-> Field("int", 123, <<"i", "n", "t", ",", "I">> \o Usage)]

\* A struct two fields of which name the same flag.
TwiceFlags ==
    [StringVar |-> Field("string", <<"s", "o", "m", "e", "v", "a", "l", "u", "e">>, <<"s", "t", "r", "i", "n", "g", ",", "S">> \o Usage),
     Other     |-> Field("string", <<"o", "t", "h", "e", "r">>, <<"o", "t", "h", "e", "r", ",", "S">> \o Usage)]

OptionStructs == {TestFlags(FALSE), TestFlags(TRUE), RatioFlags, TwiceFlags}

\* The uses of a flag the command lines of the runs are made of, after
\* testCommandLine (utils_test.go:44): a value in the next argument or
\* after '=', one or two '-', a flag without its value, a value that does
\* not convert, a flag that is not defined, an argument that is no flag.
FlagUses ==
    { << <<"-", "S">>, <<"c", "a", "d", "e", "n", "a">> >>, << <<"-", "-", "s", "t", "r", "i", "n", "g", "=", "x">> >>, << <<"-", "I">>, <<"-", "1", "2", "3">> >>,
      << <<"-", "i", "n", "t", "=", "7">> >>, << <<"-", "B">> >>, << <<"-", "b", "o", "o", "l", "=", "f", "a", "l", "s", "e">> >>,
      << <<"-", "s", "V">>, <<"a", "b", "c", "d", ":", ":", "1", "2", "3", "4">> >>, << <<"-", "s", "V">>, <<"a", "b", "c", "d">> >>, << <<"-", "I">>, <<"1", "2", "x">> >>,
      << <<"-", "S">> >>, << <<"-", "n", "o", "p", "e">> >>, << <<"-", "h">> >>, << <<"r", "e", "s", "t">> >> }

\* The command lines of at most n uses.
RECURSIVE CommandLines(_)
CommandLines(n) ==
    IF n = 0 THEN {<<>>}
    ELSE CommandLines(n - 1) \cup
         {u \o c : u \in FlagUses, c \in CommandLines(n - 1)}

InitFlags ==
    /\ environ = <<>>
    /\ pc = "define"
    /\ i = 1
    /\ envMap = EmptyMap
    /\ prevMap = NoRun
    /\ op = "none"
    /\ pattern = <<>>
    /\ rv = EmptyMap
    /\ stderr = <<>>
    /\ es = <<>>
    /\ arg = <<>>
    /\ ret = <<>>
    /\ reads = <<>>
    /\ MainAtRest
    /\ options \in OptionStructs
    /\ formal = EmptyMap
    /\ args \in CommandLines(MaxFlags)
    /\ copyDst = <<>>
    /\ copySrc = <<>>
    /\ checkerFn = <<>>
    /\ err = <<>>

\* DefineCommandLineFlags(&options, nil): defaults is options
\* (utils.go:22-24).  It returns a nil error, or panics.
CallDefineCommandLineFlags ==
    /\ pc = "define"
    /\ \E order \in MapOrders(DOMAIN options) :
          LET then(r) ==
                  /\ options' = r.options
                  /\ formal' = r.formal
                  /\ pc' = IF r.panic THEN "panic" ELSE "parse"
          IN  then(DefineCommandLineFlags(options, options, order, 1, formal))
    /\ UNCHANGED <<environ, envMap, stderr, callVars, mainVars,
                   args, copyDst, copySrc, checkerFn, err>>

\* flag.CommandLine.Parse(args), one turn of its loop around parseOne.
\* flag.CommandLine is made with ExitOnError: an error is written to
\* standard error and ends the process with status 2, and with 0 when it
\* is the request for help.
ParseOne ==
    /\ pc = "parse"
    /\ LET then(r) ==
               /\ options' = r.options
               /\ args' = r.args
               /\ err' = r.err
               /\ stderr' = stderr \o r.err
               /\ pc' = IF r.panic THEN "panic"
                        ELSE IF r.err = <<"flag: help requested">> THEN "exit0"
                        ELSE IF r.err # <<>> THEN "exit2"
                        ELSE IF r.more THEN "parse"
                        ELSE "parsed"
       IN  then(parseOne(formal, options, args))
    /\ UNCHANGED <<environ, envMap, callVars, mainVars, formal,
                   copyDst, copySrc, checkerFn>>

NextFlags == CallDefineCommandLineFlags \/ ParseOne \/ Crash

SpecFlags == InitFlags /\ [][NextFlags]_vars

(***************************************************************************)
(* Properties of the command line flags                                    *)
(***************************************************************************)
\* The fields of a struct that have a flag tag.
Tagged(opts) == {f \in DOMAIN opts : opts[f].tag # <<>>}

\* The names the tag of field f lists, the ones before the ';'.
NamesOf(opts, f) ==
    {SubSeq(opts[f].tag, a + 1, b - 1) :
        <<a, b>> \in {<<a, b>> \in (0..Len(opts[f].tag)) \X (1..Len(opts[f].tag)) :
            /\ a < b
            /\ b <= Min(IndexesOf(opts[f].tag, ";") \cup {Len(opts[f].tag) + 1})
            /\ a = 0 \/ opts[f].tag[a] = ","
            /\ opts[f].tag[b] \in {",", ";"}
            /\ \A k \in (a + 1)..(b - 1) : opts[f].tag[k] # ","}}

\* The flag name the argument a gives: what follows its one or two '-',
\* up to a '='.
NameGiven(a) ==
    LET body == IF Len(a) >= 2 /\ a[1] = "-" /\ a[2] = "-" THEN Suffix(a, 3)
                ELSE IF Len(a) >= 1 /\ a[1] = "-" THEN Suffix(a, 2)
                ELSE <<>>
    IN  SubSeq(body, 1, Min(IndexesOf(body, "=") \cup {Len(body) + 1}) - 1)

\* The text the head of the command line as gives its flag: what follows
\* the '=', else true for a flag of a bool field, else the next argument.
TextGiven(as, typ) ==
    IF IndexesOf(Head(as), "=") # {}
    THEN Suffix(Head(as), Min(IndexesOf(Head(as), "=")) + 1)
    ELSE IF typ = "bool" THEN <<"t", "r", "u", "e">>
    ELSE as[2]

\* The define step registers every name of every tagged field, bound to
\* that field, binds nothing else and leaves the values of the fields.
C27_Defined ==
    pc = "define" =>
        /\ pc' = "parse"
        /\ options' = options
        /\ \A f \in Tagged(options) : \A n \in NamesOf(options, f) :
              n \in DOMAIN formal' /\ formal'[n] = f
        /\ \A n \in DOMAIN formal' : formal'[n] \in Tagged(options)

\* A turn of the parse that reads a flag leaves in the field of that flag
\* the value given, and every other field as it was.
C27_Parsed ==
    pc = "parse" /\ pc' \in {"parse", "parsed"} =>
        \A f \in DOMAIN options :
            IF args # <<>> /\ NameGiven(Head(args)) \in NamesOf(options, f)
            THEN options'[f].val =
                     Set(options[f].typ, options[f].val,
                         TextGiven(args, options[f].typ)).val
            ELSE options'[f] = options[f]

\* C27: DefineCommandLineFlags(&options, nil) followed by the parse of a
\* command line: every name of the flag tag of a field is registered and
\* bound to that field, so that the field holds the value given under any
\* of its names; a tagged field no flag was given for keeps the value it
\* had when the flags were defined; a field without a tag is never bound.
C27_FlagsBound == [][C27_Defined /\ C27_Parsed]_vars

(***************************************************************************)
(* ConditionalCopy and the helpers of package reflection it is made of.    *)
(* A Go value is its type and what it holds: a text, a number, the fields  *)
(* of a struct in the order of their declaration, or, for a pointer,       *)
(* whether it is nil and what it points to.                                *)
(***************************************************************************)
GoValue(typ, val) == [typ |-> typ, val |-> val]

\* The pointer types of the runs and the type each points to.
ElemType == [t \in {"*int", "**int", "*string", "*struct"} |->
                IF t = "*int" THEN "int"
                ELSE IF t = "**int" THEN "*int"
                ELSE IF t = "*string" THEN "string"
                ELSE "struct"]

\* reflect.Type.Kind.
Kind(typ) == IF typ \in DOMAIN ElemType THEN "ptr" ELSE typ

\* &v.
PointerTo(v) ==
    GoValue(CHOOSE t \in DOMAIN ElemType : ElemType[t] = v.typ,
            [nil |-> FALSE, elem |-> v.val])

\* part_000:172-179: the type and value of the object, or of what it points
\* to when it is a pointer that is not nil.
GetTypeAndValue(object) ==
    IF Kind(object.typ) = "ptr" /\ ~object.val.nil
    THEN GoValue(ElemType[object.typ], object.val.elem)
    ELSE object

\* part_000:191-208: CheckValidKind(obj, reflect.Struct, true).
CheckValidKind(obj) ==
    IF Kind(obj.typ) # "ptr" THEN <<"the object passed is not a pointer">>
    ELSE IF Kind(ElemType[obj.typ]) # "struct" THEN <<"unexpected type">>
    ELSE <<>>

\* part_000:333-348: GetFieldsNames(obj, true), the names of the public
\* fields in the order of their declaration.
GetFieldsNames(obj) ==
    IF Kind(GetTypeAndValue(obj).typ) # "struct"
    THEN [err |-> <<"invalid type, should be struct or pointer to struct">>,
          names |-> <<>>]
    ELSE [err |-> <<>>,
          names |-> LET fields == GetTypeAndValue(obj).val
                    IN  [k \in 1..Len(fields) |-> fields[k].name]]

onlyPublic(names) == SelectSeq(names, LAMBDA name : name[1] \in Upper)

\* part_000:226-239: getField.
getField(obj, fieldName) ==
    IF Kind(GetTypeAndValue(obj).typ) # "struct"
    THEN [err |-> <<"first argument is not an struct">>, k |-> 0]
    ELSE LET fields == GetTypeAndValue(obj).val
             at == {k \in 1..Len(fields) : fields[k].name = fieldName}
         IN  IF at = {} THEN [err |-> <<"field does not exist">>, k |-> 0]
             ELSE [err |-> <<>>, k |-> Min(at)]

\* part_000:268-274: GetFieldAsInterface, the value of the field.
GetFieldAsInterface(obj, fieldName) ==
    LET then(r) ==
            IF r.err # <<>> THEN [err |-> r.err, v |-> <<>>]
            ELSE [err |-> <<>>,
                  v |-> GoValue(GetTypeAndValue(obj).val[r.k].typ,
                                GetTypeAndValue(obj).val[r.k].val)]
    IN  then(getField(obj, fieldName))

\* part_000:245-262: GetFieldPointer, a pointer to the field; obj has to be
\* a pointer.
GetFieldPointer(obj, fieldName) ==
    IF Kind(obj.typ) # "ptr"
    THEN [err |-> <<"need a pointer to an struct as input object">>, v |-> <<>>]
    ELSE LET then(r) ==
                 IF r.err # <<>> THEN r ELSE [err |-> <<>>, v |-> PointerTo(r.v)]
         IN  then(GetFieldAsInterface(obj, fieldName))

\* reflect.Value.Set through the pointer to the field: the field k of the
\* struct dst points to takes the value val.
SetField(dst, k, val) ==
    GoValue(dst.typ, [dst.val EXCEPT !.elem = [@ EXCEPT ![k].val = val]])

\* checkerFn(field, dst, src): one that always agrees, one that never
\* does, and the one of the test (reflect_utils_test.go:704-710), which
\* agrees unless the struct control has the field with the value of dst.
Checker(kind, control) == [kind |-> kind, control |-> control]

Check(fn, field, dstField, srcField) ==
    IF fn.kind = "always" THEN TRUE
    ELSE IF fn.kind = "never" THEN FALSE
    ELSE LET then(cnt) ==
                 \/ cnt.err # <<>>
                 \/ cnt.v.typ # dstField.typ
                 \/ cnt.v.val # dstField.val
         IN  then(GetFieldAsInterface(fn.control, field))

\* part_000:364-388: the loop of ConditionalCopy over the public fields of
\* src, from the k-th on.
RECURSIVE copyFields(_, _, _, _, _)
copyFields(dst, src, fn, publicFields, k) ==
    IF k > Len(publicFields) THEN dst
    ELSE LET field == publicFields[k]
             next(d) == copyFields(d, src, fn, publicFields, k + 1)
             then(dstFieldPointer, dstField, srcField) ==
                 IF dstFieldPointer.err # <<>> \/ dstField.err # <<>>
                    \/ srcField.err # <<>>
                 THEN next(dst)
                 ELSE IF GetTypeAndValue(dstFieldPointer.v).typ
                         # GetTypeAndValue(srcField.v).typ
                 THEN next(dst)
                 ELSE IF Check(fn, field, dstField.v, srcField.v)
                 THEN next(SetField(dst, getField(dst, field).k,
                                    GetTypeAndValue(srcField.v).val))
                 ELSE next(dst)
         IN  then(GetFieldPointer(dst, field), GetFieldAsInterface(dst, field),
                  GetFieldAsInterface(src, field))

\* part_000:356-390: ConditionalCopy.
ConditionalCopy(dst, src, fn) ==
    IF GetFieldsNames(src).err # <<>>
    THEN [err |-> <<"invalid origin">> \o GetFieldsNames(src).err, dst |-> dst]
    ELSE IF CheckValidKind(dst) # <<>>
    THEN [err |-> CheckValidKind(dst), dst |-> dst]
    ELSE [err |-> <<>>,
          dst |-> copyFields(dst, src, fn, onlyPublic(GetFieldsNames(src).names), 1)]

\* A field of a struct.
StructField(name, typ, val) == [name |-> name, typ |-> typ, val |-> val]

\* What a *int holds: a pointer to the number n, and nil.
IntPointer(n) == [nil |-> FALSE, elem |-> n]

NilInt == [nil |-> TRUE, elem |-> 0]

\* The structs of the runs, after src, dst and control of TestConditionalCopy
\* (reflect_utils_test.go:679-704): F1 is a string on both sides, F2 an int
\* in src and a string in dst, the private f3 an int on both sides; to them
\* comes P, a *int on both sides, nil or not, or Q, a *int in src and an
\* int in dst.
SrcStruct(n) ==
    << StructField(<<"F", "1">>, "string", <<"f", "1", "o", "r", "i", "g">>),
       StructField(<<"F", "2">>, "int", 12),
       StructField(<<"W", "i", "l", "l", "C", "o", "p", "y">>, "string", <<"N", "e", "w", " ", "V", "a", "l", "u", "e">>),
       StructField(<<"F", "4">>, "string", <<"f", "4", "o", "r", "i", "g">>),
       StructField(<<"f", "3">>, "int", 5) >>
    \o IF n = 1 THEN << StructField(<<"P">>, "*int", NilInt) >>
       ELSE IF n = 2 THEN << StructField(<<"P">>, "*int", IntPointer(7)) >>
       ELSE IF n = 3 THEN << StructField(<<"Q">>, "*int", NilInt) >>
       ELSE IF n = 4 THEN << StructField(<<"Q">>, "*int", IntPointer(7)) >>
       ELSE << >>

DstStruct(w, n) ==
    << StructField(<<"F", "1">>, "string", <<"f", "1", "d", "e", "s", "t">>),
       StructField(<<"F", "2">>, "string", <<"a", "a">>),
       StructField(<<"W", "i", "l", "l", "C", "o", "p", "y">>, "string", w),
       StructField(<<"f", "3">>, "int", 3) >>
    \o IF n = 1 THEN << StructField(<<"P">>, "*int", NilInt) >>
       ELSE IF n = 2 THEN << StructField(<<"P">>, "*int", IntPointer(3)) >>
       ELSE IF n = 3 THEN << StructField(<<"Q">>, "int", 1) >>
       ELSE << >>

\* The values that are no struct and no pointer to one
\* (reflect_utils_test.go:737-741).
FailCase(n) ==
    IF n = 1 THEN GoValue("[]string", << <<"1">> >>)
    ELSE IF n = 2 THEN GoValue("int", 1)
    ELSE IF n = 3 THEN GoValue("string", <<"h", "o", "l", "a">>)
    ELSE PointerTo(GoValue("int", 1))

\* The struct the checker of the test looks its fields up in.
Control ==
    GoValue("struct", << StructField(<<"W", "i", "l", "l", "C", "o", "p", "y">>, "string", <<"C", "o", "n", "t", "r", "o", "l", " ", "V", "a", "l", "u", "e">>) >>)

CheckerFns == {Checker(kind, Control) : kind \in {"always", "never", "control"}}

InitCopy ==
    /\ environ = <<>>
    /\ pc = "copy"
    /\ i = 1
    /\ envMap = EmptyMap
    /\ prevMap = NoRun
    /\ op = "none"
    /\ pattern = <<>>
    /\ rv = EmptyMap
    /\ stderr = <<>>
    /\ es = <<>>
    /\ arg = <<>>
    /\ ret = <<>>
    /\ reads = <<>>
    /\ MainAtRest
    /\ options = <<>>
    /\ formal = <<>>
    /\ args = <<>>
    /\ \/ \E w \in {<<"W", "i", "l", "l", " ", "b", "e", " ", "c", "h", "a", "n", "g", "e", "d">>, <<"C", "o", "n", "t", "r", "o", "l", " ", "V", "a", "l", "u", "e">>}, n \in 0..3 :
             \/ copyDst = PointerTo(GoValue("struct", DstStruct(w, n)))
             \/ copyDst = GoValue("struct", DstStruct(w, n))
       \/ \E n \in 1..4 : copyDst = FailCase(n)
    /\ \/ \E n \in 0..4 :
             \/ copySrc = PointerTo(GoValue("struct", SrcStruct(n)))
             \/ copySrc = GoValue("struct", SrcStruct(n))
       \/ \E n \in 1..4 : copySrc = FailCase(n)
    /\ checkerFn \in CheckerFns
    /\ err = <<>>

\* err := ConditionalCopy(dst, src, checkerFn).
CallConditionalCopy ==
    /\ pc = "copy"
    /\ LET then(r) ==
               /\ copyDst' = r.dst
               /\ err' = r.err
               /\ pc' = IF r.err = <<>> THEN "copied" ELSE "failed"
       IN  then(ConditionalCopy(copyDst, copySrc, checkerFn))
    /\ UNCHANGED <<environ, envMap, stderr, callVars, mainVars,
                   options, formal, args, copySrc, checkerFn>>

\* The caller goes on with another copy from the same origin.
CopyAgain ==
    /\ pc = "copied"
    /\ \E fn \in CheckerFns : checkerFn' = fn
    /\ pc' = "copy"
    /\ UNCHANGED <<environ, envMap, stderr, callVars, mainVars,
                   options, formal, args, copyDst, copySrc, err>>

NextCopy == CallConditionalCopy \/ CopyAgain

SpecCopy == InitCopy /\ [][NextCopy]_vars

(***************************************************************************)
(* Properties of ConditionalCopy                                           *)
(***************************************************************************)
\* v is a struct or a pointer to one; v is a pointer to one.
IsStruct(v) == v.typ \in {"struct", "*struct"}

IsStructPointer(v) == v.typ = "*struct"

\* The fields of the struct v is or points to.
FieldsOf(v) == IF v.typ = "*struct" THEN v.val.elem ELSE v.val

\* The k-th field of dst has a public namesake of the same type in src, at
\* position j.
Namesake(dst, k, src, j) ==
    /\ FieldsOf(src)[j].name = FieldsOf(dst)[k].name
    /\ FieldsOf(src)[j].name[1] \in Upper
    /\ FieldsOf(src)[j].typ = FieldsOf(dst)[k].typ

\* checkerFn agrees to the copy of the field at j of src to k of dst.
Agreed(dst, k, src, j) ==
    Check(checkerFn, FieldsOf(dst)[k].name,
          GoValue(FieldsOf(dst)[k].typ, FieldsOf(dst)[k].val),
          GoValue(FieldsOf(src)[j].typ, FieldsOf(src)[j].val))

\* C28: ConditionalCopy(dst, src, checkerFn) assigns the value of src to a
\* field of dst exactly when the field is a public field of src, dst has a
\* field of the same name and type, and checkerFn returns true for it; all
\* other fields of dst and all of src are left as they were; when src is no
\* struct and no pointer to one, or dst no pointer to a struct, it returns
\* an error and changes nothing.
C28_ConditionalCopy ==
    [][pc = "copy" =>
        /\ copySrc' = copySrc
        /\ IF IsStruct(copySrc) /\ IsStructPointer(copyDst)
           THEN /\ err' = <<>>
                /\ copyDst'.typ = copyDst.typ
                /\ Len(FieldsOf(copyDst')) = Len(FieldsOf(copyDst))
                /\ \A k \in 1..Len(FieldsOf(copyDst)) :
                      IF \E j \in 1..Len(FieldsOf(copySrc)) :
                            /\ Namesake(copyDst, k, copySrc, j)
                            /\ Agreed(copyDst, k, copySrc, j)
                      THEN \E j \in 1..Len(FieldsOf(copySrc)) :
                              /\ Namesake(copyDst, k, copySrc, j)
                              /\ FieldsOf(copyDst')[k] = FieldsOf(copySrc)[j]
                      ELSE FieldsOf(copyDst')[k] = FieldsOf(copyDst)[k]
           ELSE /\ err' # <<>>
                /\ copyDst' = copyDst]_vars

====
